---- MODULE Spec2Model ----
(***************************************************************************)
(* A model of the processing core of WebVideoToolkit: the sample store     *)
(* (SampleManager), the encode gate (VideoEncoder), the export pipeline    *)
(* (ProcessingPipeline), the preview coordinator (PreviewManager) and the  *)
(* processor (VideoProcessor).                                             *)
(*                                                                         *)
(* Array indices are the 0-based indices of the JavaScript source; At      *)
(* reads a TLA+ sequence at such an index.  A time in milliseconds is the  *)
(* JavaScript number (cts * 1000) / timescale; the model keeps its         *)
(* numerator cts * 1000 and compares by cross-multiplying with Timescale,  *)
(* so a time that is not a whole number of milliseconds stays exact.       *)
(***************************************************************************)
EXTENDS Integers, Sequences, FiniteSets, TLC

\* ------------------------------------------------------------------ bounds

\* Longest track (number of samples in the demuxed file).
MaxLen == 4
\* Largest chunk count one requestChunks call asks for.
MaxChunk == 2
\* requestChunks calls counted after the cursor has reached the end.
MaxExtraCalls == 2
\* Track timescale (ticks per second); sample i is presented at tick cts.
Timescale == 3

\* Encode calls issued to one encoder (frames of one run).
MaxEncodeCalls == 27
\* Encode calls suspended on the gate at one time, when callers do not wait
\* for one another.
MaxPending == 3
\* Frames of the long export feed, delivered in timestamp order.
NumFrames == 26
\* Frames of the file exported against an encoder that does not drain: twice
\* the windows of the two codecs and more.
ManyFrames == 50
\* Frames of a feed the decoder may deliver in any order.
MaxShuffle == 4

\* The value JavaScript calls undefined, for an omitted time bound.
Undefined == -1

\* The startMs / endMs arguments tried (milliseconds), Undefined included.
Targets == {Undefined, 0, 500, 1000, 1500}

\* ------------------------------------------------------------------ samples

At(arr, i) == arr[i + 1]

Slice(arr, from, to) ==
  IF from >= to \/ from >= Len(arr) THEN <<>>
  ELSE SubSeq(arr, from + 1, IF to > Len(arr) THEN Len(arr) ELSE to)

\* Presentation position of the sample at decode position i (1-based) when
\* the samples at the decode positions in swaps trade places with their
\* successors (a B-frame decoded after the frame it is presented before).
PresPos(i, swaps) ==
  IF i \in swaps THEN i ELSE IF (i - 1) \in swaps THEN i - 2 ELSE i - 1

SwapSets(n) ==
  {w \in SUBSET (1..(n - 1)) : \A i \in w : (i + 1) \notin w}

\* Calls made on the store behind the demuxer's back.
MaxLateCalls == 1

\* The times (ms) a selection by time is asked for after ingestion.
ReselectTimes == {0, 500, 1000}

\* The frame indices a selection by index is asked for: every index of the
\* longest track, and one beyond it.
SampleIndices == 0..MaxLen

\* The tracks a file may hold: n samples in decode order, any of them a
\* sync point, composition times a local reordering of 0..n-1 ticks.
Tracks ==
  UNION {
    { [i \in 1..n |-> [cts |-> PresPos(i, w), is_sync |-> (i \in ks)]]
        : ks \in SUBSET (1..n), w \in SwapSets(n) }
    : n \in 1..MaxLen }

\* Files whose samples are in presentation order, the first a sync point.
SortedTracks ==
  {tr \in Tracks : tr[1].is_sync /\ \A i \in 1..Len(tr) : tr[i].cts = i - 1}

\* SampleManager.sampleTimeMs, as the numerator over Timescale.
SampleTimeMsNum(sample) == sample.cts * 1000

\* sampleTimeMs(sample) < targetTime and sampleTimeMs(sample) <= targetTime.
TimeLess(sample, targetTime) == SampleTimeMsNum(sample) < targetTime * Timescale
TimeLessEq(sample, targetTime) == SampleTimeMsNum(sample) <= targetTime * Timescale

RECURSIVE LowerBoundLoop(_, _, _, _)
LowerBoundLoop(arr, targetTime, left, right) ==
  IF left <= right
  THEN LET mid == (left + right) \div 2
       IN IF TimeLess(At(arr, mid), targetTime)
          THEN LowerBoundLoop(arr, targetTime, mid + 1, right)
          ELSE LowerBoundLoop(arr, targetTime, left, mid - 1)
  ELSE left

lowerBound(arr, targetTime) == LowerBoundLoop(arr, targetTime, 0, Len(arr) - 1)

\* upperBound with < in place of <=: the last index strictly before the
\* target.
UpperBoundStrict(arr, targetTime) ==
  LowerBoundLoop(arr, targetTime, 0, Len(arr) - 1) - 1

RECURSIVE UpperBoundLoop(_, _, _, _)
UpperBoundLoop(arr, targetTime, left, right) ==
  IF left <= right
  THEN LET mid == (left + right) \div 2
       IN IF TimeLessEq(At(arr, mid), targetTime)
          THEN UpperBoundLoop(arr, targetTime, mid + 1, right)
          ELSE UpperBoundLoop(arr, targetTime, left, mid - 1)
  ELSE right

upperBound(arr, targetTime) == UpperBoundLoop(arr, targetTime, 0, Len(arr) - 1)

\* The rewind loop with the sync test dropped: the start stays where the
\* search put it.
RewindNoLoop(arr, startIndex) == startIndex

\* while (startIndex > 0 && !samples[startIndex].is_sync) startIndex--
\* (called with startIndex < samples.length only).
RECURSIVE RewindToSync(_, _)
RewindToSync(arr, startIndex) ==
  IF startIndex > 0 /\ ~At(arr, startIndex).is_sync
  THEN RewindToSync(arr, startIndex - 1)
  ELSE startIndex

\* The advance loop dropped: the end stays where the search put it.
AdvanceNoLoop(arr, endIndex) == endIndex

\* while (endIndex < length - 1 && !samples[endIndex + 1].is_sync) endIndex++
RECURSIVE AdvanceToGopEnd(_, _)
AdvanceToGopEnd(arr, endIndex) ==
  IF endIndex < Len(arr) - 1 /\ ~At(arr, endIndex + 1).is_sync
  THEN AdvanceToGopEnd(arr, endIndex + 1)
  ELSE endIndex

\* What a finalizeTimeRange call computes over the array arr: whether it
\* throws, and otherwise the slice bounds and the reported times.
TimeRangeResult(arr, timeRangeStart, timeRangeEnd) ==
  LET len == Len(arr)
      lb == IF timeRangeStart # Undefined THEN lowerBound(arr, timeRangeStart) ELSE 0
      \* samples[length] is undefined: reading its is_sync throws.
      rewindThrows == timeRangeStart # Undefined /\ lb > 0 /\ lb >= len
      startIndex == IF timeRangeStart # Undefined /\ ~rewindThrows
                    THEN RewindToSync(arr, lb) ELSE 0
      preciousStartIndex == lb
      ub == IF timeRangeEnd # Undefined THEN upperBound(arr, timeRangeEnd) ELSE len
      endIndex == IF timeRangeEnd # Undefined
                  THEN AdvanceToGopEnd(arr, ub) + 1 ELSE len
      preciousEnd0 == IF timeRangeEnd # Undefined THEN ub ELSE len - 1
      preciousEndIndex == IF preciousEnd0 >= len THEN len - 1 ELSE preciousEnd0
      threw == \/ rewindThrows
               \/ preciousStartIndex >= len
               \* samples[-1] is undefined: reading its cts throws.
               \/ preciousEndIndex < 0
  IN IF threw
     THEN [threw |-> TRUE, startIndex |-> 0, endIndex |-> 0,
           preciousStartIndex |-> 0, preciousEndIndex |-> 0]
     ELSE [threw |-> FALSE, startIndex |-> startIndex, endIndex |-> endIndex,
           preciousStartIndex |-> preciousStartIndex,
           preciousEndIndex |-> preciousEndIndex]

\* ------------------------------------------------------------------ store

\* A SampleManager object.  samples and originalSamples are arrays or null
\* (samplesIsNull, originalIsNull); sameArray says that both fields refer to
\* one array object, so that a push through one is seen through the other.
\* readyResolved: readyPromise is resolved and resolveReadyPromise is null.
NewSampleManager ==
  [samples |-> <<>>, samplesIsNull |-> FALSE,
   originalSamples |-> <<>>, originalIsNull |-> TRUE, sameArray |-> FALSE,
   currentIndex |-> 0, finalized |-> FALSE, state |-> "receiving",
   readyResolved |-> FALSE]

\* The outcome of a call on the store m: the store afterwards, whether the
\* call threw, and what it returned or handed to its callbacks.
Outcome(m, threw, ret) == [sm |-> m, threw |-> threw, ret |-> ret]

addSamples(m, newSamples) ==
  IF m.finalized THEN Outcome(m, TRUE, <<>>)
  ELSE IF m.samplesIsNull THEN Outcome(m, TRUE, <<>>)
  ELSE Outcome([m EXCEPT !.samples = @ \o newSamples,
                         !.originalSamples =
                            IF m.sameArray THEN @ \o newSamples ELSE @],
               FALSE, <<>>)

finalize(m) ==
  LET m1 == [m EXCEPT !.originalSamples = m.samples,
                      !.originalIsNull = m.samplesIsNull,
                      !.sameArray = TRUE]
  IN IF m.readyResolved
     \* resolveReadyPromise is null by now: calling it throws.
     THEN Outcome(m1, TRUE, <<>>)
     ELSE Outcome([m1 EXCEPT !.readyResolved = TRUE, !.state = "finalized"],
                  FALSE, <<>>)

\* What a range selection that threw reports: nothing.
NoRange == [startIndex |-> 0, endIndex |-> 0, preciousStartIndex |-> 0,
            preciousEndIndex |-> 0, count |-> 0, outStart |-> 0, outEnd |-> 0]

finalizeTimeRange(m, timeRangeStart, timeRangeEnd) ==
  LET m1 == [m EXCEPT !.samples = m.originalSamples,
                      !.samplesIsNull = m.originalIsNull,
                      !.sameArray = TRUE]
  IN IF m.originalIsNull
     \* this.samples.length of null throws.
     THEN Outcome(m1, TRUE, NoRange)
     ELSE
       LET r == TimeRangeResult(m1.samples, timeRangeStart, timeRangeEnd)
           cut == Slice(m1.samples, r.startIndex, r.endIndex)
       IN IF r.threw
          THEN Outcome(m1, TRUE, NoRange)
          ELSE Outcome([m1 EXCEPT !.samples = cut, !.sameArray = FALSE,
                                  !.currentIndex = 0, !.finalized = TRUE],
                       FALSE,
                       [startIndex |-> r.startIndex, endIndex |-> r.endIndex,
                        preciousStartIndex |-> r.preciousStartIndex,
                        preciousEndIndex |-> r.preciousEndIndex,
                        count |-> Len(cut),
                        outStart |-> SampleTimeMsNum(At(m1.samples, r.preciousStartIndex)),
                        outEnd |-> SampleTimeMsNum(At(m1.samples, r.preciousEndIndex))])

\* The selection reading the active array in place of the original one.
ActiveArray(m) == [arr |-> m.samples, isNull |-> m.samplesIsNull]

\* this.samples = this.originalSamples: the array finalizeSampleInIndex
\* selects from.
OriginalArray(m) == [arr |-> m.originalSamples, isNull |-> m.originalIsNull]

\* while (endIndex > 0 && !this.samples[endIndex].cts) endIndex--
RECURSIVE RewindPastZeroCts(_, _)
RewindPastZeroCts(arr, endIndex) ==
  IF endIndex > 0 /\ At(arr, endIndex).cts = 0
  THEN RewindPastZeroCts(arr, endIndex - 1)
  ELSE endIndex

\* What a finalizeSampleInIndex call computes over the array arr, for
\* indices that are not negative: whether it throws, and otherwise the
\* (inclusive) slice bounds.
SampleIndexResult(arr, startIndex, endIndex) ==
  LET len == Len(arr)
      \* samples[startIndex] is undefined: reading its is_sync throws.
      rewindThrows == startIndex > 0 /\ startIndex >= len
      first == IF rewindThrows THEN 0 ELSE RewindToSync(arr, startIndex)
      clamped == IF endIndex >= len THEN len - 1 ELSE endIndex
      last == RewindPastZeroCts(arr, clamped)
      \* if (startIndex >= endIndex) throw new Error("Invalid sample range")
      threw == rewindThrows \/ first >= last
  IN IF threw
     THEN [threw |-> TRUE, startIndex |-> 0, endIndex |-> 0]
     ELSE [threw |-> FALSE, startIndex |-> first, endIndex |-> last]

finalizeSampleInIndex(m, startIndex, endIndex) ==
  LET src == OriginalArray(m)
      m1 == [m EXCEPT !.samples = src.arr,
                      !.samplesIsNull = src.isNull,
                      !.sameArray = TRUE]
  IN IF src.isNull
     \* this.samples.length (or an element) of null throws.
     THEN Outcome(m1, TRUE, NoRange)
     ELSE
       LET r == SampleIndexResult(m1.samples, startIndex, endIndex)
           cut == Slice(m1.samples, r.startIndex, r.endIndex + 1)
       IN IF r.threw
          THEN Outcome(m1, TRUE, NoRange)
          ELSE Outcome([m1 EXCEPT !.samples = cut, !.sameArray = FALSE,
                                  !.currentIndex = 0, !.finalized = TRUE],
                       FALSE,
                       [startIndex |-> r.startIndex, endIndex |-> r.endIndex,
                        preciousStartIndex |-> startIndex,
                        preciousEndIndex |-> r.endIndex,
                        count |-> Len(cut),
                        outStart |-> SampleTimeMsNum(At(m1.samples, startIndex)),
                        outEnd |-> SampleTimeMsNum(At(m1.samples, r.endIndex))])

\* How many samples one requestChunks(count, ...) call hands to onChunk.
Processed(m, count) ==
  IF Len(m.samples) - m.currentIndex < count
  THEN Len(m.samples) - m.currentIndex ELSE count

\* onExhausted only for a cursor beyond the end, which it never is.
ExhaustedPastEnd(index, length) == index > length

\* if (this.currentIndex >= this.samples.length) onExhausted(), after the loop.
ExhaustedAfter(index, length) == index >= length

\* requestChunks: ret.chunks are the samples handed to onChunk, in order;
\* ret.exhausted says whether onExhausted was invoked.
requestChunks(m, count) ==
  IF m.samplesIsNull THEN Outcome(m, TRUE, [chunks |-> <<>>, exhausted |-> FALSE])
  ELSE LET processed == Processed(m, count)
           next == m.currentIndex + processed
       IN Outcome([m EXCEPT !.currentIndex = next], FALSE,
                  [chunks |-> Slice(m.samples, m.currentIndex, next),
                   exhausted |-> ExhaustedAfter(next, Len(m.samples))])

\* A reset that leaves the cursor where it is.
ResetKeepsCursor(m) == [m EXCEPT !.finalized = FALSE]

resetForReprocessing(m) == [m EXCEPT !.currentIndex = 0, !.finalized = FALSE]

\* ------------------------------------------------------------------ encoder

\* logging.js: the high-water mark of the native encode queue.
kEncodeQueueSize == 23

\* export const kDecodeQueueSize = kEncodeQueueSize: chunks kept in the decoder.
kDecodeQueueSize == kEncodeQueueSize

\* A VideoEncoder object: the native queue depth (encoder.encodeQueueSize),
\* whether blockingPromise is a pending promise (FALSE: null), frameCount,
\* fps in hundredths (30 until init), and keyFrames, the numbers of the
\* frames handed to the native encoder with { keyFrame: true }.
NewVideoEncoder ==
  [encodeQueueSize |-> 0, blockingPromise |-> FALSE, frameCount |-> 0,
   fps |-> 3000, keyFrames |-> {}]

\* VideoEncoder.init(width, height, fps, ...), as far as encode depends on
\* it: fps is stored and frameCount starts again from 0.
init(e, fps) == [e EXCEPT !.fps = fps, !.frameCount = 0]

\* Math.round(x) for x = hundredths / 100 >= 0: floor(x + 0.5).
MathRound(hundredths) == (hundredths + 50) \div 100

\* forceKeyframe, computed after this.frameCount++: the remainder by
\* keyframeInterval 0 is NaN in JavaScript, and NaN === 0 is false.
forceKeyframe(fps, frameCount) ==
  LET keyframeInterval == MathRound(fps)
  IN IF keyframeInterval = 0 THEN FALSE
     ELSE (frameCount - 1) % keyframeInterval = 0

\* while (this.encoder.encodeQueueSize > kEncodeQueueSize)
GateBlocks(e) == e.encodeQueueSize > kEncodeQueueSize

\* An if in place of the while: a call that has waited once goes on to
\* encode without looking at the queue again.
NoRecheckAfterWait(e) == FALSE

\* The loop condition as a call evaluates it again after its await.
RecheckAfterWait(e) == GateBlocks(e)

\* The frames submitted natively so far, as the call that submits one more
\* sees it: frameCount is incremented, then the frame is queued.
Submit(e) ==
  [e EXCEPT !.frameCount = @ + 1, !.encodeQueueSize = @ + 1,
            !.keyFrames = IF forceKeyframe(e.fps, e.frameCount + 1)
                          THEN @ \cup {e.frameCount + 1} ELSE @]

\* VideoEncoder.encode run from its start, or (resumed) from its await, up
\* to its next await or its return: suspended says which.
encode(e, resumed) ==
  IF (IF resumed THEN RecheckAfterWait(e) ELSE GateBlocks(e))
  THEN [enc |-> [e EXCEPT !.blockingPromise = TRUE], suspended |-> TRUE]
  ELSE [enc |-> Submit(e), suspended |-> FALSE]

\* The release condition of the ondequeue handler.
\* A release at one queue depth only.
DrainReleasesAtMark(e) ==
  e.blockingPromise /\ e.encodeQueueSize = kEncodeQueueSize - 1

DrainReleases(e) == e.blockingPromise /\ e.encodeQueueSize < kEncodeQueueSize

\* encoder.ondequeue: released says whether blockingPromise was resolved.
ondequeue(e) ==
  IF DrainReleases(e)
  THEN [enc |-> [e EXCEPT !.blockingPromise = FALSE], released |-> TRUE]
  ELSE [enc |-> e, released |-> FALSE]

\* ------------------------------------------------------------------ pipeline

\* SampleManager.encodedVideoChunkFromSample: the chunk timestamp in
\* microseconds, which the decoded frame carries (an integer: the
\* fraction of (1e6 * cts) / timescale is dropped).
ChunkTimestamp(cts) == (1000000 * cts) \div Timescale

\* processFrame: Math.floor(frame.timestamp / 1000)
FrameTimeMs(timestamp) == timestamp \div 1000

\* processFrame: frameTimeMs < timeRangeStart || frameTimeMs > timeRangeEnd,
\* the range bounds being the numerators over Timescale that
\* finalizeTimeRange returned.
OutOfRange(timestamp, startNum, endNum) ==
  \/ FrameTimeMs(timestamp) * Timescale < startNum
  \/ FrameTimeMs(timestamp) * Timescale > endNum

\* A frame in the promise chain: the decoded frame (its cts) and where its
\* then-callback stands: "queued" (not yet called), "waiting" (inside
\* encoder.encode, awaiting blockingPromise), "resumed" (that promise is
\* resolved, the continuation not yet run) or "fulfilled".
Task(cts, st) == [frame |-> cts, st |-> st]

\* The VideoFrame objects of an export, each with the number of close()
\* calls made on it: the frame the decoder output for the sample presented
\* at cts, and the frame processFrame made from the canvas for it.
Decoded(cts) == <<"decoded", cts>>
Drawn(cts) == <<"canvas", cts>>

NoFrames == <<>>

\* A frame comes into being (decoder output, new VideoFrame), open.
NewFrame(fs, id) == (id :> 0) @@ fs

\* frame.close(), directly or through ResourceManager.closeFrame.
CloseFrame(fs, id) == [fs EXCEPT ![id] = @ + 1]

\* processFrame called directly from handleDecoderOutput, not chained.
NoChain(chain, i) == TRUE

\* previousPromise.then(...): the callback of the i-th frame runs once the
\* promise of the frame before it is fulfilled.
PredecessorSettled(chain, i) ==
  IF i = 1 THEN TRUE ELSE chain[i - 1].st = "fulfilled"

\* The promises of the chain that are rejected: processFrame threw while
\* drawing ("drawFailed": uiManager.drawFrame or drawTimestamp threw, before
\* frame.close()), its encoder.encode call rejected ("encodeFailed", after
\* frame.close()), or the promise before it in the chain was rejected, so
\* that then() passed the rejection on without calling processFrame
\* ("skipped").
Rejected == {"drawFailed", "encodeFailed", "skipped"}

\* The promise before the i-th one in the chain is rejected.
PredecessorRejected(chain, i) ==
  IF i = 1 THEN FALSE ELSE chain[i - 1].st \in Rejected

DeliveryOrders(n) ==
  {f \in [1..n -> 0..(n - 1)] : \A i \in 1..n : \A j \in 1..n : f[i] = f[j] => i = j}

\* What the decoder may deliver during one run, in delivery order: a long
\* feed in timestamp order, or a short one in any order.
Feeds == {[i \in 1..NumFrames |-> i - 1]} \cup DeliveryOrders(MaxShuffle)

\* Samples between two sync points of the long file of an export.
LongGop == 12

\* A file longer than the decode window: NumFrames samples in presentation
\* order, a sync point every LongGop samples.
LongTrack ==
  [i \in 1..NumFrames |-> [cts |-> i - 1, is_sync |-> ((i - 1) % LongGop = 0)]]

\* The files an export is run on: short tracks in presentation order that
\* begin with a sync point, and the long one.
ExportTracks == SortedTracks \cup {LongTrack}

\* The times (ms) an export is asked to start and to end at.
ExportTimes == {0, 300, 700, 9000}

\* The composition times of the chunks handed to the decoder, which its
\* frames carry.
ChunkTimes(chunks) == [i \in 1..Len(chunks) |-> chunks[i].cts]

\* finalize going on to encoder.finalize without awaiting the chain.
NoAwaitAll(chain, n) == TRUE

\* Promise.all over the promises in outputTaskPromises when finalize reads
\* it: the first n of the chain.
AllSettled(chain, n) == \A i \in 1..n : chain[i].st = "fulfilled"

\* ------------------------------------------------------------------ preview and processor

\* Calls made on one processor.
MaxCalls == 4
\* Longest track of a file opened in the processor.
MaxProcLen == 2

\* The preview requests made in a behaviour where the decoder's outputs and
\* flushes are followed to their end.
MaxPreviews == 3

\* The positions (percent) a preview is asked for.
Percentages == {0, 50, 100}

\* The (startMs, endMs) pairs an export is asked for.
ExportRanges == {<<Undefined, Undefined>>, <<0, 500>>}

\* The files opened in the processor: short tracks that begin with a sync
\* point and are presented in decode order.
ProcTracks ==
  {tr \in Tracks : /\ Len(tr) <= MaxProcLen
                   /\ tr[1].is_sync
                   /\ \A i \in 1..Len(tr) : tr[i].cts = i - 1}

\* VideoProcessor.previewManager before setup has created it (created is
\* FALSE: null), and new PreviewManager(decoder, sampleManager) after.
\* previewFrameTimeStamp is a time in ms, kept as its numerator over
\* Timescale; hasSamples is FALSE while this.samples is undefined.
NewPreviewManager ==
  [created |-> FALSE, previewFrameTimeStamp |-> 0, samples |-> <<>>, hasSamples |-> FALSE]

\* The loop dropped: the slice starts at the target sample.
KeyFrameNoLoop(arr, keyFrameIndex) == keyFrameIndex

\* while (keyFrameIndex > 0 && !this.samples[keyFrameIndex].is_sync) keyFrameIndex--
RECURSIVE KeyFrameIndex(_, _)
KeyFrameIndex(arr, keyFrameIndex) ==
  IF keyFrameIndex > 0 /\ ~At(arr, keyFrameIndex).is_sync
  THEN KeyFrameIndex(arr, keyFrameIndex - 1)
  ELSE keyFrameIndex

\* SampleManager.findSamplesAtPercentage: ret is the slice from the key
\* frame to the sample at the position.
findSamplesAtPercentage(m, percentage) ==
  IF m.finalized \/ m.samplesIsNull THEN Outcome(m, TRUE, <<>>)
  ELSE LET sampleIndex == (percentage * (Len(m.samples) - 1)) \div 100
       IN IF sampleIndex < 0 THEN Outcome(m, FALSE, <<>>)
          ELSE Outcome(m, FALSE,
                       Slice(m.samples, KeyFrameIndex(m.samples, sampleIndex),
                             sampleIndex + 1))

\* PreviewManager.preparePreview: the preview manager afterwards, whether
\* the call threw, and the handle it returned.
preparePreview(q, m, percentage) ==
  LET found == findSamplesAtPercentage(m, percentage)
  IN IF ~q.created \/ found.threw \/ found.ret = <<>>
     \* previewManager is null, the store refuses, or the last sample of
     \* an empty slice is undefined.
     THEN [pm |-> q, threw |-> TRUE, handle |-> 0]
     ELSE LET timeStamp == SampleTimeMsNum(found.ret[Len(found.ret)])
          IN [pm |-> [q EXCEPT !.samples = found.ret, !.hasSamples = TRUE,
                               !.previewFrameTimeStamp = timeStamp],
              threw |-> FALSE, handle |-> timeStamp]

\* PreviewManager.executePreview: what it submits to the decoder and
\* whether it returns null or the flush promise.
executePreview(q, handle) ==
  IF handle # q.previewFrameTimeStamp
  THEN [submitted |-> <<>>, returned |-> "null"]
  ELSE [submitted |-> q.samples, returned |-> "promise"]

\* Math.floor(this.previewFrameTimeStamp) === Math.floor(frame.timestamp / 1000.0)
\* The comparison without Math.floor on the handle.
HandleMatchesUnfloored(q, timestamp) ==
  q.previewFrameTimeStamp = FrameTimeMs(timestamp) * Timescale

HandleMatches(q, timestamp) ==
  q.previewFrameTimeStamp \div Timescale = FrameTimeMs(timestamp)

\* PreviewManager.drawPreview: whether the frame is drawn, and the
\* preview manager afterwards.
drawPreview(q, timestamp) ==
  IF HandleMatches(q, timestamp)
  THEN [pm |-> [q EXCEPT !.previewFrameTimeStamp = 0], drew |-> TRUE]
  ELSE [pm |-> q, drew |-> FALSE]

\* The state test left out: a call is accepted in any state.
AcceptsAnyState(st) == TRUE

\* if (this.state !== "initialized") throw ...
AcceptsCall(st) == st = "initialized"

\* VideoProcessor.resetForReprocessing.
resetProcessor(st, m) ==
  IF st = "finalized"
  THEN [state |-> "initialized", sm |-> resetForReprocessing(m)]
  ELSE [state |-> st, sm |-> m]

\* A pending or resolved promise with the calls awaiting it, in the order
\* in which they began to wait.
NewPromise == [resolved |-> FALSE, waiters |-> <<>>]

\* await p by call c: its continuation is due at once when p is resolved,
\* and when p resolves otherwise.
Await(c, p, q, ps) ==
  IF ps[p].resolved
  THEN [microQ |-> Append(q, c), promises |-> ps]
  ELSE [microQ |-> q, promises |-> [ps EXCEPT ![p].waiters = Append(@, c)]]

\* VideoProcessor.waitForPreviousPromise run by call c from its start
\* (awaited = 0) or from its await of the promise awaited, up to its next
\* await or its return; on return the caller's own await makes its
\* continuation due.
waitForPreviousPromise(c, awaited, prev, q, ps) ==
  LET tempPromise == IF awaited # 0 /\ awaited = prev THEN 0 ELSE prev
  IN IF tempPromise = 0
     THEN [pc |-> "outer", temp |-> 0, previousPromise |-> 0,
           microQ |-> Append(q, c), promises |-> ps]
     ELSE LET a == Await(c, tempPromise, q, ps)
          IN [pc |-> "inner", temp |-> tempPromise, previousPromise |-> prev,
              microQ |-> a.microQ, promises |-> a.promises]

\* A call on the processor: what was called with which argument, the
\* processor state it found, where it stands (pc: "threw", "inner" inside
\* waitForPreviousPromise, "outer" behind it, "setup" awaiting
\* pipeline.setup, "running" awaiting pipeline.start, "done"), the promise
\* it awaits, and for a preview its handle, the samples its preparePreview
\* selected, the active handle its executePreview found, what that
\* submitted and returned, and for an export its pipeline.
Call(op, arg, st, pc, temp, handle, prepared) ==
  [op |-> op, arg |-> arg, stateAtCall |-> st, pc |-> pc, temp |-> temp,
   handle |-> handle, prepared |-> prepared, active |-> 0, submitted |-> <<>>,
   returned |-> "none", pipeline |-> 0]

\* config.matrix of a track that carries none (undefined).
NoMatrix == <<>>

\* The track matrix [a, b, u, c, d, v, x, y, w] in 16.16 fixed point with
\* the sub-block (a, b, c, d), as mp4box reports it.
TrackMatrix(a, b, c, d) == <<a, b, 0, c, d, 0, 0, 0, 65536>>

IdentityMatrix == TrackMatrix(65536, 0, 0, 65536)

\* val * scale === n with scale = 1 / 65536: the product by a power of two
\* is exact, so the test holds exactly when val is n * 65536.
ScaledIs(val, n) == val = n * 65536

\* setInitialRotation without the branch for a = 0, b = -1, c = 1, d = 0.
RotationNoCounterClockwise(current, m) ==
  IF m = NoMatrix THEN current
  ELSE IF ScaledIs(m[1], 0) /\ ScaledIs(m[2], 1) /\ ScaledIs(m[4], -1)
          /\ ScaledIs(m[5], 0)
       THEN 90
       ELSE IF ScaledIs(m[1], -1) /\ ScaledIs(m[5], -1) THEN 180 ELSE 0

\* VideoProcessor.setInitialRotation(matrix) followed by the assignment of
\* updateRotation(rotation): VideoProcessor.rotation afterwards, current
\* being its value before.  const [a, b, , c, d] takes the elements 0, 1,
\* 3 and 4 of the scaled matrix.
setInitialRotation(current, m) ==
  IF m = NoMatrix THEN current
  ELSE LET a == m[1]
           b == m[2]
           c == m[4]
           d == m[5]
       IN IF ScaledIs(a, 0) /\ ScaledIs(b, 1) /\ ScaledIs(c, -1) /\ ScaledIs(d, 0)
          THEN 90
          ELSE IF ScaledIs(a, 0) /\ ScaledIs(b, -1) /\ ScaledIs(c, 1) /\ ScaledIs(d, 0)
          THEN -90
          ELSE IF ScaledIs(a, -1) /\ ScaledIs(d, -1)
          THEN 180
          ELSE 0

\* new VideoProcessorState(): 'idle', no promise (0: null).
NewVideoProcessorState ==
  [currentState |-> "idle", processingPromise |-> 0, processingResolve |-> 0,
   previousPromise |-> 0, returned |-> "none"]

\* A pipeline that has not started: nothing dispatched, no range yet.
NewExport == [queue |-> <<>>, start |-> 0, end |-> 0]

\* The calls that start an export: processFileByTime and processFileByFrame.
ExportOps == {"export", "exportByFrame"}

\* A frame the preview decoder will output, decoded for call req, and the
\* end of a flush.
FrameEntry(req, sample) == [kind |-> "frame", req |-> req, cts |-> sample.cts]
FlushEntry(p) == [kind |-> "flush", req |-> p, cts |-> 0]

\* ------------------------------------------------------------------ state

VARIABLES
  track,            \* the file's video track, as the demuxer will deliver it
  passed,           \* MP4Demuxer.passed_samples
  stopSamples,      \* MP4Demuxer.stopProcessingSamples
  sm,               \* the SampleManager
  sel,              \* the last range selection: arguments and outcome
  delivered,        \* samples handed to onChunk since the last selection
  exhaustedCalls,   \* onExhausted invocations since the last selection
  extraCalls,       \* requestChunks calls made with the cursor at the end
  lastRun,          \* the store and its deliveries when it was last reset for reprocessing
  late,             \* calls made on the store after ingestion was finalized
  enc,              \* the VideoEncoder
  encWaiting,       \* encode calls awaiting blockingPromise
  encResumed,       \* encode calls whose await is over, not yet continued
  encDequeueScheduled, \* the native encoder has a dequeue event to fire
  pipeState,        \* ProcessingPipeline.state
  feed,             \* frames the export decoder has still to deliver
  tasks,            \* the promise chain: every promise chained so far, in order
  rangeStart,   \* ProcessingPipeline.timeRangeStart (numerator)
  rangeEnd,     \* ProcessingPipeline.timeRangeEnd (numerator)
  drawn,            \* frames drawn to the canvas by processFrame, in order
  frames,           \* per VideoFrame of the export: the close() calls made on it
  encoded,          \* frames submitted to the native encoder, in order
  finalizePc,       \* how far the end of the run has got (see EndOfRun)
  awaited,          \* how many chained promises finalize's Promise.all awaits
  encFinalizeCalls, \* VideoEncoder.finalize invocations in this run
  onFinalizedCalls, \* onFinalized invocations in this run
  startResolved,    \* the promise returned by ProcessingPipeline.start is resolved
  fault,            \* the native codec that has reported an error and is closed
  procState,        \* VideoProcessor.state
  pm,               \* the PreviewManager
  previousPromise,  \* VideoProcessor.previousPromise: 0 (null) or a flush promise
  promises,         \* the flush promises of the preview decoder, by number
  calls,            \* the calls made on the processor, in call order
  microQ,           \* continuations due, in the order they became due
  inTask,           \* the task that made the last call is still running
  previewQueue,     \* work submitted to the preview decoder, not yet output
  previewDrawn,     \* frames drawn by drawPreview, in order
  pipelines,        \* the state of every ProcessingPipeline created, in order
  timeRange,        \* VideoProcessor.timeRangeStart and timeRangeEnd (numerators)
  exports,          \* per pipeline: frames its decoder has still to output, its range
  canvas,           \* the draws made on the shared canvas so far
  matrix,           \* VideoProcessor.matrix: <<>> (undefined) or the track's matrix
  rotation,         \* VideoProcessor.rotation, in degrees
  machine,          \* a VideoProcessorState object
  dec               \* the pipeline's VideoDecoder wrapper and its native decoder

storeVars == <<track, passed, stopSamples, sm, sel, delivered, exhaustedCalls,
               extraCalls, lastRun, late>>

encVars == <<enc, encWaiting, encResumed, encDequeueScheduled>>

runVars == <<finalizePc, awaited, encFinalizeCalls, onFinalizedCalls, startResolved,
             fault>>

pipeVars == <<pipeState, feed, tasks, rangeStart, rangeEnd, drawn, frames, encoded, runVars>>

procVars == <<procState, pm, previousPromise, promises, calls, microQ, inTask,
              previewQueue, previewDrawn, pipelines, timeRange, exports, canvas,
              matrix, rotation, machine, dec>>

vars == <<storeVars, encVars, pipeVars, procVars>>

\* The record of a range selection: the call, whether it threw, and what
\* it computed and returned.
Selection(op, start, end, o) ==
  [op |-> op, start |-> start, end |-> end, threw |-> o.threw,
   startIndex |-> o.ret.startIndex, endIndex |-> o.ret.endIndex,
   preciousStartIndex |-> o.ret.preciousStartIndex,
   preciousEndIndex |-> o.ret.preciousEndIndex,
   count |-> o.ret.count, outStart |-> o.ret.outStart, outEnd |-> o.ret.outEnd]

NoSel == Selection("none", Undefined, Undefined, [threw |-> FALSE, ret |-> NoRange])

\* The store has not been reset for reprocessing since the last selection
\* (reset), nor ever before (prior).
NoRun == [reset |-> FALSE, prior |-> FALSE, active |-> <<>>, original |-> <<>>,
          delivered |-> <<>>]

\* A selection ends the run that a reset began; prior remembers that there
\* was one.
AfterRun == [NoRun EXCEPT !.prior = lastRun.prior \/ lastRun.reset]

\* No call has been made on the store behind the demuxer's back.
NoLateCall == [n |-> 0, op |-> "none", threw |-> FALSE, before |-> <<>>,
               after |-> <<>>, state |-> "receiving", ready |-> FALSE]

\* new SampleManager(), new MP4Demuxer(...): nothing received yet.
StoreConstructed ==
  /\ passed = 0
  /\ stopSamples = FALSE
  /\ sm = NewSampleManager
  /\ sel = NoSel
  /\ delivered = <<>>
  /\ exhaustedCalls = 0
  /\ extraCalls = 0
  /\ lastRun = NoRun
  /\ late = NoLateCall

\* No file has been opened.
NoFile == track = <<>> /\ StoreConstructed

\* new VideoEncoder(): nothing queued, nobody waiting.
EncoderConstructed ==
  /\ enc = NewVideoEncoder
  /\ encWaiting = 0
  /\ encResumed = 0
  /\ encDequeueScheduled = FALSE

\* The end of a run, finalizePc: "none" (onExhausted not yet invoked),
\* "flushing" (onExhausted awaits decoder.flush), "awaitTasks" (finalize
\* awaits Promise.all), "encoderFinalizing" (finalize awaits
\* encoder.finalize), "done" (finalize has returned) and "failed" (an
\* awaited promise rejected: onExhausted or finalize ended by throwing).
EndOfRun == {"none", "flushing", "awaitTasks", "encoderFinalizing", "done", "failed"}

\* processingResolve is null, nothing of the end of the run has happened.
\* ProcessingPipeline.decoder before setupDecoder has run (the constructor
\* leaves it unset), and the fields of a VideoDecoder wrapper once set up:
\* the flag it was built with, the native decodeQueueSize, whether the
\* native decoder has a dequeue event scheduled, and the pending timeouts
\* of startTimerDispatch.
NoDecoder ==
  [isChromeBased |-> TRUE, decodeQueueSize |-> 0, dequeueScheduled |-> FALSE,
   timers |-> 0]

EndNotBegun ==
  /\ finalizePc = "none"
  /\ awaited = 0
  /\ encFinalizeCalls = 0
  /\ onFinalizedCalls = 0
  /\ startResolved = FALSE
  /\ fault = "none"

\* new ProcessingPipeline(...): no decoder, no frame, an empty chain.
PipelineConstructed ==
  /\ pipeState = "idle"
  /\ feed = <<>>
  /\ tasks = <<>>
  /\ rangeStart = 0
  /\ rangeEnd = 0
  /\ drawn = <<>>
  /\ frames = NoFrames
  /\ encoded = <<>>
  /\ EndNotBegun
  /\ dec = NoDecoder

\* new VideoProcessor(...): idle, no preview manager, no pipeline.
ProcessorConstructed ==
  /\ procState = "idle"
  /\ pm = NewPreviewManager
  /\ previousPromise = 0
  /\ promises = <<>>
  /\ calls = <<>>
  /\ microQ = <<>>
  /\ inTask = FALSE
  /\ previewQueue = <<>>
  /\ previewDrawn = <<>>
  /\ pipelines = <<>>
  /\ timeRange = <<0, 0>>
  /\ exports = <<>>
  /\ canvas = {}
  /\ matrix = NoMatrix
  /\ rotation = 0
  /\ machine = NewVideoProcessorState

\* MP4Demuxer.onSamples with the next n samples of the track.
OnSamples(n) ==
  /\ ~stopSamples
  /\ passed + n <= Len(track)
  /\ LET added == addSamples(sm, SubSeq(track, passed + 1, passed + n))
         done == passed + n >= Len(track)
     IN /\ passed' = passed + n
        /\ IF added.threw
           THEN /\ sm' = added.sm
                /\ stopSamples' = stopSamples
           ELSE /\ stopSamples' = done
                /\ sm' = IF done THEN finalize(added.sm).sm ELSE added.sm
  /\ UNCHANGED <<track, sel, delivered, exhaustedCalls, extraCalls, lastRun, late>>
  /\ UNCHANGED <<encVars, pipeVars, procVars>>

\* A call of SampleManager.finalizeTimeRange(timeRangeStart, timeRangeEnd).
FinalizeTimeRange(timeRangeStart, timeRangeEnd) ==
  LET o == finalizeTimeRange(sm, timeRangeStart, timeRangeEnd)
  IN /\ sm' = o.sm
     /\ sel' = Selection("time", timeRangeStart, timeRangeEnd, o)
     /\ delivered' = <<>>
     /\ exhaustedCalls' = 0
     /\ extraCalls' = 0
     /\ lastRun' = AfterRun
     /\ UNCHANGED <<track, passed, stopSamples, late, encVars, pipeVars, procVars>>

\* A call of SampleManager.requestChunks(count, onChunk, onExhausted) after
\* a range selection that returned.
RequestChunks(count) ==
  /\ sel.op # "none" /\ ~sel.threw
  /\ sm.currentIndex >= Len(sm.samples) => extraCalls < MaxExtraCalls
  /\ LET o == requestChunks(sm, count)
     IN /\ sm' = o.sm
        /\ delivered' = delivered \o o.ret.chunks
        /\ exhaustedCalls' = exhaustedCalls + (IF o.ret.exhausted THEN 1 ELSE 0)
  /\ extraCalls' = extraCalls + (IF sm.currentIndex >= Len(sm.samples) THEN 1 ELSE 0)
  /\ UNCHANGED <<track, passed, stopSamples, sel, lastRun, late, encVars,
                 pipeVars, procVars>>

NextStore ==
  \/ \E n \in 1..MaxLen : OnSamples(n)
  \/ \E s \in Targets, e \in Targets : FinalizeTimeRange(s, e)
  \/ \E count \in 1..MaxChunk : RequestChunks(count)

\* A file with some video track is about to be demuxed.
InitStore ==
  /\ track \in Tracks
  /\ StoreConstructed /\ EncoderConstructed /\ PipelineConstructed
  /\ ProcessorConstructed

SpecStore == InitStore /\ [][NextStore]_vars

\* ------------------------------------------------------------------ the store after ingestion

\* VideoProcessor.setup has run: 'initialized', a preview manager, nothing
\* else in flight.
ProcessorInitialized ==
  /\ procState = "initialized"
  /\ pm = [NewPreviewManager EXCEPT !.created = TRUE]
  /\ previousPromise = 0
  /\ promises = <<>>
  /\ calls = <<>>
  /\ microQ = <<>>
  /\ inTask = FALSE
  /\ previewQueue = <<>>
  /\ previewDrawn = <<>>
  /\ pipelines = <<>>
  /\ timeRange = <<0, 0>>
  /\ exports = <<>>
  /\ canvas = {}
  /\ matrix = IdentityMatrix
  /\ rotation = setInitialRotation(0, IdentityMatrix)
  /\ machine = NewVideoProcessorState


\* The demuxer has delivered the whole track and finalized the store.
Ingested ==
  /\ passed = Len(track)
  /\ stopSamples = TRUE
  /\ sm = finalize(addSamples(NewSampleManager, track).sm).sm
  /\ sel = NoSel
  /\ delivered = <<>>
  /\ exhaustedCalls = 0
  /\ extraCalls = 0
  /\ lastRun = NoRun
  /\ late = NoLateCall

\* A call of SampleManager.finalizeSampleInIndex(startIndex, endIndex).
FinalizeSampleInIndex(startIndex, endIndex) ==
  LET o == finalizeSampleInIndex(sm, startIndex, endIndex)
  IN /\ sm' = o.sm
     /\ sel' = Selection("index", startIndex, endIndex, o)
     /\ delivered' = <<>>
     /\ exhaustedCalls' = 0
     /\ extraCalls' = 0
     /\ lastRun' = AfterRun
     /\ UNCHANGED <<track, passed, stopSamples, late, encVars, pipeVars, procVars>>

\* SampleManager.resetForReprocessing(), called by the processor when a
\* finished export is followed by another call: a run over the active
\* range has ended and the next one starts.
ResetForReprocessing ==
  /\ sel.op # "none" /\ ~sel.threw
  /\ delivered # <<>>
  /\ sm' = resetForReprocessing(sm)
  /\ lastRun' = [reset |-> TRUE, prior |-> lastRun.prior, active |-> sm.samples,
                 original |-> sm.originalSamples, delivered |-> delivered]
  /\ delivered' = <<>>
  /\ exhaustedCalls' = 0
  /\ extraCalls' = 0
  /\ UNCHANGED <<track, passed, stopSamples, sel, late, encVars, pipeVars,
                 procVars>>

\* The sample one more onSamples delivery would bring.
ExtraSample == [cts |-> Len(track), is_sync |-> FALSE]

\* What a late call did: the full sequence before and after it, and the
\* store's state and ready flag after it.
LateCall(op, o) ==
  [n |-> late.n + 1, op |-> op, threw |-> o.threw,
   before |-> sm.originalSamples, after |-> o.sm.originalSamples,
   state |-> o.sm.state, ready |-> o.sm.readyResolved]

\* SampleManager.addSamples is called once more after finalize().
AddSamplesLate ==
  /\ late.n < MaxLateCalls
  /\ LET o == addSamples(sm, <<ExtraSample>>)
     IN /\ sm' = o.sm
        /\ late' = LateCall("addSamples", o)
  /\ UNCHANGED <<track, passed, stopSamples, sel, delivered, exhaustedCalls,
                 extraCalls, lastRun, encVars, pipeVars, procVars>>

\* SampleManager.finalize is called a second time.
FinalizeAgain ==
  /\ late.n < MaxLateCalls
  /\ LET o == finalize(sm)
     IN /\ sm' = o.sm
        /\ late' = LateCall("finalize", o)
  /\ UNCHANGED <<track, passed, stopSamples, sel, delivered, exhaustedCalls,
                 extraCalls, lastRun, encVars, pipeVars, procVars>>

\* The life of the store behind a finished ingestion: selections by time
\* and by index, chunk pulls, resets for reprocessing.
NextReselect ==
  \/ \E s \in ReselectTimes, e \in ReselectTimes : FinalizeTimeRange(s, e)
  \/ \E i \in SampleIndices, j \in SampleIndices : FinalizeSampleInIndex(i, j)
  \/ \E count \in 1..MaxChunk : RequestChunks(count)
  \/ ResetForReprocessing

\* A file in presentation order, wholly ingested.
InitReselect ==
  /\ track \in SortedTracks
  /\ Ingested /\ EncoderConstructed /\ PipelineConstructed /\ ProcessorInitialized

SpecReselect == InitReselect /\ [][NextReselect]_vars

\* The same life with calls the demuxer has no reason to make.
NextStoreApi ==
  \/ NextReselect
  \/ AddSamplesLate
  \/ FinalizeAgain

SpecStoreApi == InitReselect /\ [][NextStoreApi]_vars

\* Files whose sample times never decrease but may repeat: n samples at
\* ticks chosen from 0..MaxLen, the first or every one a sync point.
SteppedTracks ==
  UNION {
    { [i \in 1..n |-> [cts |-> ticks[i], is_sync |-> (i \in ks)]]
        : ks \in {{1}, 1..n},
          ticks \in {f \in [1..n -> 0..MaxLen] :
                       \A i \in 1..(n - 1) : f[i] <= f[i + 1]} }
    : n \in 1..MaxLen }

\* Such a file, wholly ingested.
InitBounds ==
  /\ track \in SteppedTracks
  /\ Ingested /\ EncoderConstructed /\ PipelineConstructed /\ ProcessorInitialized

\* Selections by time on it that give one bound only, and chunk pulls over
\* what they select.
NextBounds ==
  \/ \E t \in Targets : FinalizeTimeRange(t, Undefined)
  \/ \E t \in Targets : FinalizeTimeRange(Undefined, t)
  \/ \E count \in 1..MaxChunk : RequestChunks(count)

SpecBounds == InitBounds /\ [][NextBounds]_vars

\* ------------------------------------------------------------------ encoder actions

\* A continuation is due to run before the event loop takes its next task:
\* an encode call whose await is over, or a reaction of the chain whose
\* predecessor is fulfilled or rejected.
MicrotaskPending ==
  \/ encResumed > 0
  \/ \E i \in 1..Len(tasks) : tasks[i].st = "queued" /\ PredecessorSettled(tasks, i)
  \/ \E i \in 1..Len(tasks) : tasks[i].st = "queued" /\ PredecessorRejected(tasks, i)

\* The native encoder finishes one queued frame: the queue shrinks and a
\* dequeue event is scheduled (several such steps share one event).
NativeEncoded ==
  /\ ~MicrotaskPending
  /\ enc.encodeQueueSize > 0
  /\ enc' = [enc EXCEPT !.encodeQueueSize = @ - 1]
  /\ encDequeueScheduled' = TRUE
  /\ UNCHANGED <<encWaiting, encResumed, storeVars, pipeVars, procVars>>

\* The dequeue event fires: encoder.ondequeue runs; resolving
\* blockingPromise ends the await of every call that shares it.
OnDequeue ==
  /\ ~MicrotaskPending
  /\ encDequeueScheduled
  /\ encDequeueScheduled' = FALSE
  /\ LET o == ondequeue(enc)
     IN /\ enc' = o.enc
        /\ encWaiting' = IF o.released THEN 0 ELSE encWaiting
        /\ encResumed' = IF o.released THEN encResumed + encWaiting ELSE encResumed
        /\ tasks' = IF o.released
                    THEN [i \in 1..Len(tasks) |->
                            IF tasks[i].st = "waiting"
                            THEN Task(tasks[i].frame, "resumed") ELSE tasks[i]]
                    ELSE tasks
  /\ UNCHANGED <<storeVars, pipeState, feed, rangeStart, rangeEnd,
                 drawn, frames, encoded, runVars, procVars>>

\* A caller invokes VideoEncoder.encode(frame), whether or not earlier
\* calls have returned.
EncodeCall ==
  /\ enc.frameCount + encWaiting + encResumed < MaxEncodeCalls
  /\ encWaiting + encResumed < MaxPending
  /\ LET o == encode(enc, FALSE)
     IN /\ enc' = o.enc
        /\ encWaiting' = encWaiting + (IF o.suspended THEN 1 ELSE 0)
  /\ UNCHANGED <<encResumed, encDequeueScheduled, storeVars, pipeVars, procVars>>

\* A suspended encode call continues after its await.
EncodeResume ==
  /\ encResumed > 0
  /\ LET o == encode(enc, TRUE)
     IN /\ enc' = o.enc
        /\ encWaiting' = encWaiting + (IF o.suspended THEN 1 ELSE 0)
  /\ encResumed' = encResumed - 1
  /\ UNCHANGED <<encDequeueScheduled, storeVars, pipeVars, procVars>>

NextEncoder ==
  \/ EncodeCall
  \/ EncodeResume
  \/ NativeEncoded
  \/ OnDequeue

\* An encoder on its own, driven by arbitrary callers.
InitEncoder ==
  NoFile /\ EncoderConstructed /\ PipelineConstructed /\ ProcessorConstructed

SpecEncoder == InitEncoder /\ [][NextEncoder]_vars

\* The encoder on an event loop that runs every due continuation and every
\* dequeue event, with a native encoder that keeps draining its queue.
SpecEncoderLive ==
  /\ InitEncoder
  /\ [][NextEncoder]_vars
  /\ WF_vars(EncodeResume)
  /\ WF_vars(NativeEncoded)
  /\ WF_vars(OnDequeue)

\* The fps values (hundredths) an encoder is initialised with: a frame
\* every three seconds, 1, 1.49, 1.5, 2.5 and 29.97 frames per second.
FpsValues == {33, 100, 149, 150, 250, 2997}

\* An encoder initialised for a track of any of these rates.
InitKeyframe ==
  /\ NoFile /\ PipelineConstructed /\ ProcessorConstructed
  /\ \E fps \in FpsValues : enc = init(NewVideoEncoder, fps)
  /\ encWaiting = 0
  /\ encResumed = 0
  /\ encDequeueScheduled = FALSE

SpecKeyframe == InitKeyframe /\ [][NextEncoder]_vars

\* ------------------------------------------------------------------ pipeline actions

\* ProcessingPipeline.start has run on a set-up pipeline: the state is
\* 'processing', the range is the one the selection returned, and the
\* decoder is about to deliver the frames of the feed.
PipelineStarted ==
  /\ pipeState = "processing"
  /\ feed \in Feeds
  /\ tasks = <<>>
  /\ \E first \in 0..1, cut \in 0..1 :
       /\ rangeStart = first * 1000
       /\ rangeEnd = (Len(feed) - 1 - cut) * 1000
  /\ drawn = <<>>
  /\ frames = NoFrames
  /\ encoded = <<>>
  /\ EndNotBegun
  /\ dec = NoDecoder

\* ProcessingPipeline.handleDecoderOutput(frame), frame being the next one
\* the decoder delivers.
HandleDecoderOutput ==
  /\ ~MicrotaskPending
  /\ feed # <<>>
  /\ feed' = Tail(feed)
  /\ tasks' = IF pipeState \in {"processing", "exhausted"}
              THEN Append(tasks, Task(Head(feed), "queued"))
              ELSE tasks
  /\ frames' = IF pipeState \in {"processing", "exhausted"}
               THEN NewFrame(frames, Decoded(Head(feed)))
               ELSE CloseFrame(NewFrame(frames, Decoded(Head(feed))),
                               Decoded(Head(feed)))
  /\ UNCHANGED <<storeVars, encVars, pipeState, rangeStart, rangeEnd,
                 drawn, encoded, runVars, procVars>>

\* The then-callback of the i-th chained frame runs: processFrame(frame) up
\* to its return or to the await inside encoder.encode.
ProcessFrame(i) ==
  /\ tasks[i].st = "queued"
  /\ PredecessorSettled(tasks, i)
  /\ LET cts == tasks[i].frame
     IN IF OutOfRange(ChunkTimestamp(cts), rangeStart, rangeEnd)
        THEN /\ tasks' = [tasks EXCEPT ![i] = Task(cts, "fulfilled")]
             /\ frames' = CloseFrame(frames, Decoded(cts))
             /\ UNCHANGED <<drawn, encoded, enc, encWaiting>>
        ELSE LET o == encode(enc, FALSE)
                 made == NewFrame(CloseFrame(frames, Decoded(cts)), Drawn(cts))
             IN /\ drawn' = Append(drawn, cts)
                /\ frames' = IF o.suspended THEN made
                             ELSE CloseFrame(made, Drawn(cts))
                /\ enc' = o.enc
                /\ encWaiting' = encWaiting + (IF o.suspended THEN 1 ELSE 0)
                /\ encoded' = IF o.suspended THEN encoded ELSE Append(encoded, cts)
                /\ tasks' = [tasks EXCEPT ![i] =
                               Task(cts, IF o.suspended THEN "waiting" ELSE "fulfilled")]
  /\ UNCHANGED <<storeVars, encResumed, encDequeueScheduled, pipeState, feed,
                 rangeStart, rangeEnd, runVars, procVars>>

\* The encode call of the i-th frame continues after its await.
ProcessFrameResume(i) ==
  /\ tasks[i].st = "resumed"
  /\ LET cts == tasks[i].frame
         o == encode(enc, TRUE)
     IN /\ enc' = o.enc
        /\ encWaiting' = encWaiting + (IF o.suspended THEN 1 ELSE 0)
        /\ encoded' = IF o.suspended THEN encoded ELSE Append(encoded, cts)
        /\ frames' = IF o.suspended THEN frames ELSE CloseFrame(frames, Drawn(cts))
        /\ tasks' = [tasks EXCEPT ![i] =
                       Task(cts, IF o.suspended THEN "waiting" ELSE "fulfilled")]
  /\ encResumed' = encResumed - 1
  /\ UNCHANGED <<storeVars, encDequeueScheduled, pipeState, feed,
                 rangeStart, rangeEnd, drawn, runVars, procVars>>

\* The onExhausted callback of dispatch, up to its await: every sample of
\* the range has been handed to the decoder.
OnExhausted ==
  /\ ~MicrotaskPending
  /\ pipeState = "processing"
  /\ pipeState' = "exhausted"
  /\ UNCHANGED <<storeVars, encVars, feed, tasks, rangeStart, rangeEnd,
                 drawn, frames, encoded, runVars, procVars>>

\* The flush awaited by onExhausted has resolved (the decoder has delivered
\* every frame) and ProcessingPipeline.finalize has got past its
\* Promise.all over the chained frames.
Finalize ==
  /\ ~MicrotaskPending
  /\ pipeState = "exhausted"
  /\ feed = <<>>
  /\ \A i \in 1..Len(tasks) : tasks[i].st = "fulfilled"
  /\ pipeState' = "finalized"
  /\ UNCHANGED <<storeVars, encVars, feed, tasks, rangeStart, rangeEnd,
                 drawn, frames, encoded, runVars, procVars>>

NextPipeline ==
  \/ HandleDecoderOutput
  \/ OnExhausted
  \/ Finalize
  \/ \E i \in 1..Len(tasks) : ProcessFrame(i)
  \/ \E i \in 1..Len(tasks) : ProcessFrameResume(i)
  \/ NativeEncoded
  \/ OnDequeue

\* One export run, from the first decoded frame on.
InitPipeline ==
  NoFile /\ EncoderConstructed /\ PipelineStarted /\ ProcessorConstructed

SpecPipeline == InitPipeline /\ [][NextPipeline]_vars

\* ------------------------------------------------------------------ export run actions

\* The demuxer has delivered the whole track and finalized the store.
FileIngested == track \in ExportTracks /\ Ingested

\* VideoProcessor.processFileByTime(startMs, endMs) on an initialized
\* processor with nothing else in flight: the range selection, processFile
\* up to pipeline.start, and start with its first dispatch.
StartExport(startMs, endMs) ==
  /\ procState = "initialized"
  /\ pipeState = "idle"
  /\ LET o == finalizeTimeRange(sm, startMs, endMs)
         d == requestChunks(o.sm, kDecodeQueueSize)
     IN /\ sel' = Selection("time", startMs, endMs, o)
        /\ IF o.threw
           THEN /\ sm' = o.sm
                /\ UNCHANGED <<delivered, exhaustedCalls, pipeState, feed,
                               rangeStart, rangeEnd, finalizePc, procState>>
           ELSE /\ sm' = d.sm
                /\ delivered' = d.ret.chunks
                /\ exhaustedCalls' = IF d.ret.exhausted THEN 1 ELSE 0
                /\ rangeStart' = o.ret.outStart
                /\ rangeEnd' = o.ret.outEnd
                /\ procState' = "processing"
                /\ pipeState' = IF d.ret.exhausted THEN "exhausted" ELSE "processing"
                /\ finalizePc' = IF d.ret.exhausted THEN "flushing" ELSE "none"
                /\ feed' = ChunkTimes(d.ret.chunks)
  /\ UNCHANGED <<track, passed, stopSamples, extraCalls, lastRun, late, encVars, tasks, drawn, frames,
                 encoded, awaited, encFinalizeCalls, onFinalizedCalls,
                 startResolved, fault, pm, previousPromise, promises, calls, microQ,
                 inTask, previewQueue, previewDrawn, pipelines, timeRange,
                 exports, canvas,
                 matrix, rotation, machine, dec>>

\* The decoder's queue has shrunk (its dequeue event, or the dispatch timer
\* of other browsers): n = kDecodeQueueSize - decodeQueueSize > 0 and
\* dispatch(n) runs on a pipeline that is still 'processing'.
DecoderDequeue ==
  /\ ~MicrotaskPending
  /\ pipeState = "processing"
  /\ Len(feed) < kDecodeQueueSize
  /\ LET d == requestChunks(sm, kDecodeQueueSize - Len(feed))
     IN /\ sm' = d.sm
        /\ delivered' = delivered \o d.ret.chunks
        /\ exhaustedCalls' = exhaustedCalls + (IF d.ret.exhausted THEN 1 ELSE 0)
        /\ pipeState' = IF d.ret.exhausted THEN "exhausted" ELSE "processing"
        /\ finalizePc' = IF d.ret.exhausted THEN "flushing" ELSE "none"
        /\ feed' = feed \o ChunkTimes(d.ret.chunks)
  /\ UNCHANGED <<track, passed, stopSamples, sel, extraCalls, lastRun, late, encVars, tasks,
                 rangeStart, rangeEnd, drawn, frames, encoded, awaited, encFinalizeCalls,
                 onFinalizedCalls, startResolved, fault, procVars>>

\* state = "finalized"; await this.encoder.finalize(): the call is made.
CallEncoderFinalize ==
  /\ pipeState' = "finalized"
  /\ encFinalizeCalls' = encFinalizeCalls + 1
  /\ finalizePc' = "encoderFinalizing"

\* The flush awaited by onExhausted resolves, the decoder having delivered
\* every frame (decodeQueueSize is 0): ProcessingPipeline.finalize runs up
\* to its first await.
FlushResolved ==
  /\ ~MicrotaskPending
  /\ finalizePc = "flushing"
  /\ feed = <<>>
  /\ IF pipeState = "finalized"
     THEN /\ finalizePc' = "done"
          /\ UNCHANGED <<pipeState, awaited, encFinalizeCalls>>
     ELSE IF Len(tasks) > 0
     THEN /\ finalizePc' = "awaitTasks"
          /\ awaited' = Len(tasks)
          /\ UNCHANGED <<pipeState, encFinalizeCalls>>
     ELSE /\ CallEncoderFinalize
          /\ UNCHANGED awaited
  /\ UNCHANGED <<storeVars, encVars, feed, tasks, rangeStart, rangeEnd, drawn, frames,
                 encoded, onFinalizedCalls, startResolved, fault, procVars>>

\* finalize continues behind await Promise.all(this.outputTaskPromises).
TasksSettled ==
  /\ ~MicrotaskPending
  /\ finalizePc = "awaitTasks"
  /\ AllSettled(tasks, awaited)
  /\ CallEncoderFinalize
  /\ UNCHANGED <<storeVars, encVars, feed, tasks, rangeStart, rangeEnd, drawn, frames,
                 encoded, awaited, onFinalizedCalls, startResolved, fault, procVars>>

\* VideoEncoder.finalize returns, its flush having drained the native
\* encoder: finalize calls onFinalized (VideoProcessor.finalize) and
\* resolves the promise start returned.
EncoderFinalized ==
  /\ ~MicrotaskPending
  /\ finalizePc = "encoderFinalizing"
  /\ enc.encodeQueueSize = 0
  /\ finalizePc' = "done"
  /\ onFinalizedCalls' = onFinalizedCalls + 1
  /\ procState' = "finalized"
  /\ startResolved' = TRUE
  /\ UNCHANGED <<storeVars, encVars, pipeState, feed, tasks, rangeStart,
                 rangeEnd, drawn, frames, encoded, awaited, encFinalizeCalls, fault, pm,
                 previousPromise, promises, calls, microQ, inTask, previewQueue,
                 previewDrawn, pipelines, timeRange, exports, canvas,
                 matrix, rotation, machine, dec>>

NextExport ==
  \/ \E startMs \in ExportTimes, endMs \in ExportTimes : StartExport(startMs, endMs)
  \/ DecoderDequeue
  \/ HandleDecoderOutput
  \/ \E i \in 1..Len(tasks) : ProcessFrame(i)
  \/ \E i \in 1..Len(tasks) : ProcessFrameResume(i)
  \/ NativeEncoded
  \/ OnDequeue
  \/ FlushResolved
  \/ TasksSettled
  \/ EncoderFinalized

\* An initialized processor whose file is ingested, before an export.
InitExport ==
  FileIngested /\ EncoderConstructed /\ PipelineConstructed /\ ProcessorInitialized

SpecExport == InitExport /\ [][NextExport]_vars

\* The same run on an event loop that runs every due continuation and task,
\* with a native decoder and a native encoder that keep draining.
SpecExportLive ==
  /\ InitExport
  /\ [][NextExport]_vars
  /\ WF_vars(DecoderDequeue)
  /\ WF_vars(HandleDecoderOutput)
  /\ WF_vars(\E i \in 1..Len(tasks) : ProcessFrame(i))
  /\ WF_vars(\E i \in 1..Len(tasks) : ProcessFrameResume(i))
  /\ WF_vars(NativeEncoded)
  /\ WF_vars(OnDequeue)
  /\ WF_vars(FlushResolved)
  /\ WF_vars(TasksSettled)
  /\ WF_vars(EncoderFinalized)

\* ------------------------------------------------------------------ decoder dispatch

\* A VideoDecoder wrapper just set up by setupDecoder, for a pipeline built
\* with the given isChromeBased flag.
NewVideoDecoder(isChromeBased) ==
  [isChromeBased |-> isChromeBased, decodeQueueSize |-> 0,
   dequeueScheduled |-> FALSE, timers |-> 0]

\* A request for a full window whatever the queue holds.
TakeAll(d) == kDecodeQueueSize

\* const n = kDecodeQueueSize - this.decoder.decodeQueueSize, in the dequeue
\* handler and in the timer callback.
Wanted(d) == kDecodeQueueSize - d.decodeQueueSize

\* ProcessingPipeline.dispatch(n): nothing unless the pipeline is
\* 'processing'; otherwise requestChunks(n), each chunk handed to
\* decoder.decode, and 'exhausted' once the cursor is at the end.
dispatch(st, m, n) ==
  IF st # "processing"
  THEN [sm |-> m, chunks |-> <<>>, exhausted |-> FALSE, state |-> st]
  ELSE LET d == requestChunks(m, n)
       IN [sm |-> d.sm, chunks |-> d.ret.chunks, exhausted |-> d.ret.exhausted,
           state |-> IF d.ret.exhausted THEN "exhausted" ELSE st]

\* The effect of a dispatch r on the store, the pipeline and the native
\* decode queue, d being the decoder as the handler leaves it otherwise:
\* decode() adds each chunk to the queue at once.
Dispatched(r, d) ==
  /\ sm' = r.sm
  /\ delivered' = delivered \o r.chunks
  /\ exhaustedCalls' = exhaustedCalls + (IF r.exhausted THEN 1 ELSE 0)
  /\ pipeState' = r.state
  /\ finalizePc' = IF r.exhausted THEN "flushing" ELSE finalizePc
  /\ feed' = feed \o ChunkTimes(r.chunks)
  /\ dec' = [d EXCEPT !.decodeQueueSize = @ + Len(r.chunks)]

\* A timeout armed whatever the state of the pipeline.
timerDispatchAnyState(st, d) ==
  IF ~d.isChromeBased THEN 1 ELSE 0

\* ProcessingPipeline.timerDispatch(): a timeout is armed when the pipeline
\* is 'processing' and was not built for a Chrome-based browser.
timerDispatch(st, d) ==
  IF st = "processing" /\ ~d.isChromeBased THEN 1 ELSE 0

\* VideoProcessor.processFileByTime(startMs, endMs) on an initialized
\* processor, as StartExport, for a browser of the given kind: setup builds
\* the decoder, start arms the timer and makes the first dispatch.
StartDispatch(isChromeBased, startMs, endMs) ==
  /\ procState = "initialized"
  /\ pipeState = "idle"
  /\ LET o == finalizeTimeRange(sm, startMs, endMs)
         d == NewVideoDecoder(isChromeBased)
         r == dispatch("processing", o.sm, kDecodeQueueSize)
     IN /\ sel' = Selection("time", startMs, endMs, o)
        /\ IF o.threw
           THEN /\ sm' = o.sm
                /\ UNCHANGED <<delivered, exhaustedCalls, pipeState, feed,
                               rangeStart, rangeEnd, finalizePc, procState, dec>>
           ELSE /\ sm' = r.sm
                /\ delivered' = r.chunks
                /\ exhaustedCalls' = IF r.exhausted THEN 1 ELSE 0
                /\ rangeStart' = o.ret.outStart
                /\ rangeEnd' = o.ret.outEnd
                /\ procState' = "processing"
                /\ pipeState' = r.state
                /\ finalizePc' = IF r.exhausted THEN "flushing" ELSE "none"
                /\ feed' = ChunkTimes(r.chunks)
                /\ dec' = [d EXCEPT !.decodeQueueSize = Len(r.chunks),
                                    !.timers = timerDispatch("processing", d)]
  /\ UNCHANGED <<track, passed, stopSamples, extraCalls, lastRun, late, encVars,
                 tasks, drawn, frames, encoded, awaited, encFinalizeCalls,
                 onFinalizedCalls, startResolved, fault, pm, previousPromise,
                 promises, calls, microQ, inTask, previewQueue, previewDrawn,
                 pipelines, timeRange, exports, canvas, matrix, rotation,
                 machine>>

dispatchRest ==
  <<track, passed, stopSamples, sel, extraCalls, lastRun, late, encVars, tasks,
    rangeStart, rangeEnd, drawn, frames, encoded, awaited, encFinalizeCalls,
    onFinalizedCalls, startResolved, fault, procState, pm, previousPromise,
    promises, calls, microQ, inTask, previewQueue, previewDrawn, pipelines,
    timeRange, exports, canvas, matrix, rotation, machine>>

\* The native decoder takes the next chunk off its queue: decodeQueueSize
\* falls by one and a dequeue event is scheduled, which only a pipeline
\* built for a Chrome-based browser listens to.
NativeDecoderTakes ==
  /\ dec.decodeQueueSize > 0
  /\ dec' = [dec EXCEPT !.decodeQueueSize = @ - 1,
                        !.dequeueScheduled = dec.isChromeBased]
  /\ UNCHANGED <<storeVars, encVars, pipeVars, procState, pm, previousPromise,
                 promises, calls, microQ, inTask, previewQueue, previewDrawn,
                 pipelines, timeRange, exports, canvas, matrix, rotation,
                 machine>>

\* decoder.ondequeue, set by VideoDecoder.setup when isChromeBased:
\* onDequeue(n), that is dispatch(n), when n > 0.
OnDecoderDequeue ==
  /\ ~MicrotaskPending
  /\ dec.dequeueScheduled
  /\ LET n == Wanted(dec)
         d == [dec EXCEPT !.dequeueScheduled = FALSE]
     IN IF n > 0
        THEN Dispatched(dispatch(pipeState, sm, n), d)
        ELSE /\ dec' = d
             /\ UNCHANGED <<sm, delivered, exhaustedCalls, pipeState,
                            finalizePc, feed>>
  /\ UNCHANGED dispatchRest

\* The timeout of VideoDecoder.startTimerDispatch fires: onDispatch(n) with
\* n = kDecodeQueueSize - decodeQueueSize, which dispatches when n > 0 and
\* then calls timerDispatch again.
TimerFires ==
  /\ ~MicrotaskPending
  /\ dec.timers > 0
  /\ LET n == Wanted(dec)
         after == IF n > 0 THEN dispatch(pipeState, sm, n).state ELSE pipeState
         d == [dec EXCEPT !.timers = @ - 1 + timerDispatch(after, dec)]
     IN IF n > 0
        THEN Dispatched(dispatch(pipeState, sm, n), d)
        ELSE /\ dec' = d
             /\ UNCHANGED <<sm, delivered, exhaustedCalls, pipeState,
                            finalizePc, feed>>
  /\ UNCHANGED dispatchRest

\* The native decoder outputs the frame of the oldest chunk it has taken
\* off its queue.
DecoderOutput ==
  /\ Len(feed) > dec.decodeQueueSize
  /\ HandleDecoderOutput

\* The files the dispatch is run on: the long one, which exceeds the decode
\* window, and the short ones.
DispatchTracks == ProcTracks \cup {LongTrack}

NextDispatch ==
  \/ \E isChromeBased \in BOOLEAN, startMs \in ExportTimes, endMs \in ExportTimes :
       StartDispatch(isChromeBased, startMs, endMs)
  \/ NativeDecoderTakes
  \/ OnDecoderDequeue
  \/ TimerFires
  \/ DecoderOutput
  \/ \E i \in 1..Len(tasks) : ProcessFrame(i)
  \/ \E i \in 1..Len(tasks) : ProcessFrameResume(i)
  \/ NativeEncoded
  \/ OnDequeue
  \/ FlushResolved
  \/ TasksSettled
  \/ EncoderFinalized

\* An initialized processor whose file is ingested, before an export.
InitDispatch ==
  /\ track \in DispatchTracks
  /\ Ingested /\ EncoderConstructed /\ PipelineConstructed /\ ProcessorInitialized

SpecDispatch == InitDispatch /\ [][NextDispatch]_vars

\* The times (ms) that export is asked to start and to end at: the whole
\* file, parts of it, and a start behind the end.
TimerStarts == {0, 700}

TimerEnds == {300, 9000}

\* The export of a browser without the decoder's dequeue event: the timer
\* is the only source of further dispatches.
NextTimer ==
  \/ \E startMs \in TimerStarts, endMs \in TimerEnds :
       StartDispatch(FALSE, startMs, endMs)
  \/ NativeDecoderTakes
  \/ TimerFires
  \/ DecoderOutput
  \/ \E i \in 1..Len(tasks) : ProcessFrame(i)
  \/ \E i \in 1..Len(tasks) : ProcessFrameResume(i)
  \/ NativeEncoded
  \/ OnDequeue
  \/ FlushResolved
  \/ TasksSettled
  \/ EncoderFinalized

\* That export on an event loop that runs every due continuation, task and
\* timeout, with native codecs that keep draining.
SpecTimer ==
  /\ InitDispatch
  /\ [][NextTimer]_vars
  /\ WF_vars(NativeDecoderTakes)
  /\ WF_vars(TimerFires)
  /\ WF_vars(DecoderOutput)
  /\ WF_vars(\E i \in 1..Len(tasks) : ProcessFrame(i))
  /\ WF_vars(\E i \in 1..Len(tasks) : ProcessFrameResume(i))
  /\ WF_vars(NativeEncoded)
  /\ WF_vars(OnDequeue)
  /\ WF_vars(FlushResolved)
  /\ WF_vars(TasksSettled)
  /\ WF_vars(EncoderFinalized)

\* A file of ManyFrames samples in presentation order, a sync point every
\* LongGop samples.
SlowTrack ==
  [i \in 1..ManyFrames |-> [cts |-> i - 1, is_sync |-> ((i - 1) % LongGop = 0)]]

\* The export of the whole of that file for as long as the native encoder
\* has not finished a frame.
InitSlowEncoder ==
  /\ track = SlowTrack
  /\ Ingested /\ EncoderConstructed /\ PipelineConstructed /\ ProcessorInitialized

NextSlowEncoder ==
  \/ \E isChromeBased \in BOOLEAN : StartDispatch(isChromeBased, Undefined, Undefined)
  \/ NativeDecoderTakes
  \/ OnDecoderDequeue
  \/ TimerFires
  \/ DecoderOutput
  \/ \E i \in 1..Len(tasks) : ProcessFrame(i)

SpecSlowEncoder == InitSlowEncoder /\ [][NextSlowEncoder]_vars

\* ------------------------------------------------------------------ export run with failures

\* VideoEncoder.encode on a native encoder that an error has closed, from
\* its start or (resumed) from its await: frameCount is incremented, then
\* this.encoder.encode throws InvalidStateError, and frame.close() behind
\* it is not reached.
encodeClosed(e, resumed) ==
  IF (IF resumed THEN RecheckAfterWait(e) ELSE GateBlocks(e))
  THEN [enc |-> [e EXCEPT !.blockingPromise = TRUE], suspended |-> TRUE]
  ELSE [enc |-> [e EXCEPT !.frameCount = @ + 1], suspended |-> FALSE]

\* The native decoder reports an error while the export uses it: the error
\* callback (onError) logs it; the decoder is closed, and the frames it had
\* not yet output are dropped.  A dispatch after that changes nothing:
\* decoder.decode throws on the first chunk, before the cursor moves.
DecoderError ==
  /\ ~MicrotaskPending
  /\ fault = "none"
  /\ pipeState \in {"processing", "exhausted"}
  /\ finalizePc \in {"none", "flushing"}
  /\ fault' = "decoder"
  /\ feed' = <<>>
  /\ UNCHANGED <<storeVars, encVars, pipeState, tasks, rangeStart, rangeEnd,
                 drawn, frames, encoded, finalizePc, awaited, encFinalizeCalls,
                 onFinalizedCalls, startResolved, procVars>>

\* The flush awaited by onExhausted rejects, the decoder being closed:
\* onExhausted ends by throwing and finalize is not called.
DecoderFlushRejected ==
  /\ ~MicrotaskPending
  /\ fault = "decoder"
  /\ finalizePc = "flushing"
  /\ finalizePc' = "failed"
  /\ UNCHANGED <<storeVars, encVars, pipeState, feed, tasks, rangeStart,
                 rangeEnd, drawn, frames, encoded, awaited, encFinalizeCalls,
                 onFinalizedCalls, startResolved, fault, procVars>>

\* The native encoder reports an error during the export: the error
\* callback logs it; the encoder is closed, its queue is emptied, and a
\* dequeue event is scheduled if frames were queued.
EncoderError ==
  /\ ~MicrotaskPending
  /\ fault = "none"
  /\ pipeState \in {"processing", "exhausted", "finalized"}
  /\ finalizePc \notin {"done", "failed"}
  /\ fault' = "encoder"
  /\ enc' = [enc EXCEPT !.encodeQueueSize = 0]
  /\ encDequeueScheduled' = (encDequeueScheduled \/ enc.encodeQueueSize > 0)
  /\ UNCHANGED <<storeVars, encWaiting, encResumed, pipeState, feed, tasks,
                 rangeStart, rangeEnd, drawn, frames, encoded, finalizePc, awaited,
                 encFinalizeCalls, onFinalizedCalls, startResolved, procVars>>

\* The then-callback of the i-th chained frame runs and drawing the frame
\* throws: processFrame logs and rethrows, the frame still open.
DrawThrows(i) ==
  /\ tasks[i].st = "queued"
  /\ PredecessorSettled(tasks, i)
  /\ ~OutOfRange(ChunkTimestamp(tasks[i].frame), rangeStart, rangeEnd)
  /\ tasks' = [tasks EXCEPT ![i] = Task(tasks[i].frame, "drawFailed")]
  /\ UNCHANGED <<storeVars, encVars, pipeState, feed, rangeStart, rangeEnd,
                 drawn, frames, encoded, runVars, procVars>>

\* The then-callback of the i-th chained frame runs with the native
\* encoder closed: the frame is drawn and closed, and the encode call of
\* the new frame rejects (or waits at the gate).
EncodeThrows(i) ==
  /\ tasks[i].st = "queued"
  /\ PredecessorSettled(tasks, i)
  /\ fault = "encoder"
  /\ ~OutOfRange(ChunkTimestamp(tasks[i].frame), rangeStart, rangeEnd)
  /\ LET cts == tasks[i].frame
         o == encodeClosed(enc, FALSE)
     IN /\ drawn' = Append(drawn, cts)
        /\ frames' = NewFrame(CloseFrame(frames, Decoded(cts)), Drawn(cts))
        /\ enc' = o.enc
        /\ encWaiting' = encWaiting + (IF o.suspended THEN 1 ELSE 0)
        /\ tasks' = [tasks EXCEPT ![i] =
                       Task(cts, IF o.suspended THEN "waiting" ELSE "encodeFailed")]
  /\ UNCHANGED <<storeVars, encResumed, encDequeueScheduled, pipeState, feed,
                 rangeStart, rangeEnd, encoded, runVars, procVars>>

\* The encode call of the i-th frame continues after its await with the
\* native encoder closed.
ResumeThrows(i) ==
  /\ tasks[i].st = "resumed"
  /\ fault = "encoder"
  /\ LET cts == tasks[i].frame
         o == encodeClosed(enc, TRUE)
     IN /\ enc' = o.enc
        /\ encWaiting' = encWaiting + (IF o.suspended THEN 1 ELSE 0)
        /\ tasks' = [tasks EXCEPT ![i] =
                       Task(cts, IF o.suspended THEN "waiting" ELSE "encodeFailed")]
  /\ encResumed' = encResumed - 1
  /\ UNCHANGED <<storeVars, encDequeueScheduled, pipeState, feed, rangeStart,
                 rangeEnd, drawn, frames, encoded, runVars, procVars>>

\* The promise before the i-th one in the chain is rejected: then() rejects
\* the i-th promise without calling processFrame(frame).
SkipFrame(i) ==
  /\ tasks[i].st = "queued"
  /\ PredecessorRejected(tasks, i)
  /\ tasks' = [tasks EXCEPT ![i] = Task(tasks[i].frame, "skipped")]
  /\ UNCHANGED <<storeVars, encVars, pipeState, feed, rangeStart, rangeEnd,
                 drawn, frames, encoded, runVars, procVars>>

\* Promise.all(this.outputTaskPromises) rejects, one of the awaited
\* promises being rejected: finalize ends by throwing, in 'exhausted'.
TasksRejected ==
  /\ ~MicrotaskPending
  /\ finalizePc = "awaitTasks"
  /\ \E i \in 1..awaited : tasks[i].st \in Rejected
  /\ finalizePc' = "failed"
  /\ UNCHANGED <<storeVars, encVars, pipeState, feed, tasks, rangeStart,
                 rangeEnd, drawn, frames, encoded, awaited, encFinalizeCalls,
                 onFinalizedCalls, startResolved, fault, procVars>>

\* VideoEncoder.finalize rejects, the flush of the closed native encoder
\* being rejected: finalize ends by throwing before onFinalized.
EncoderFinalizeRejected ==
  /\ ~MicrotaskPending
  /\ finalizePc = "encoderFinalizing"
  /\ fault = "encoder"
  /\ finalizePc' = "failed"
  /\ UNCHANGED <<storeVars, encVars, pipeState, feed, tasks, rangeStart,
                 rangeEnd, drawn, frames, encoded, awaited, encFinalizeCalls,
                 onFinalizedCalls, startResolved, fault, procVars>>

\* The (startMs, endMs) pairs of an export in which something fails: the
\* whole file, and a range that leaves frames of its GOP outside.
FaultRanges == {<<0, 9000>>, <<300, 700>>}

\* The actions of an export run that a closed codec rules out are taken
\* only while that codec works.
DispatchWhileDecoding == fault # "decoder" /\ DecoderDequeue
FlushWhileDecoding == fault # "decoder" /\ FlushResolved
FinalizedWhileEncoding == fault # "encoder" /\ EncoderFinalized

ProcessFrameWhileEncoding(i) ==
  /\ IF fault = "encoder"
     THEN OutOfRange(ChunkTimestamp(tasks[i].frame), rangeStart, rangeEnd)
     ELSE TRUE
  /\ ProcessFrame(i)

ResumeWhileEncoding(i) == fault # "encoder" /\ ProcessFrameResume(i)

NextFault ==
  \/ \E range \in FaultRanges : StartExport(range[1], range[2])
  \/ DispatchWhileDecoding
  \/ HandleDecoderOutput
  \/ \E i \in 1..Len(tasks) : ProcessFrameWhileEncoding(i)
  \/ \E i \in 1..Len(tasks) : ResumeWhileEncoding(i)
  \/ NativeEncoded
  \/ OnDequeue
  \/ FlushWhileDecoding
  \/ TasksSettled
  \/ FinalizedWhileEncoding
  \/ DecoderError
  \/ DecoderFlushRejected
  \/ EncoderError
  \/ \E i \in 1..Len(tasks) : DrawThrows(i)
  \/ \E i \in 1..Len(tasks) : EncodeThrows(i)
  \/ \E i \in 1..Len(tasks) : ResumeThrows(i)
  \/ \E i \in 1..Len(tasks) : SkipFrame(i)
  \/ TasksRejected
  \/ EncoderFinalizeRejected

SpecFault == InitExport /\ [][NextFault]_vars

\* ------------------------------------------------------------------ processor actions

\* The pipelines that have been started and have not finalized.
Running == {k \in 1..Len(pipelines) : pipelines[k] \in {"processing", "exhausted"}}

\* A frame drawn on the canvas (uiManager.drawFrame), by drawPreview or by
\* processFrame: the processor state at that moment, whether an export was
\* then running, and whether an export had drawn a frame before.
Draw(kind) ==
  [kind |-> kind, state |-> procState, running |-> Running # {},
   drew |-> \E d \in canvas : d.kind = "export"]

\* A caller may call the processor when the event loop is between tasks, or
\* from the task that made the previous call.
CallAllowed == Len(calls) < MaxCalls /\ (microQ = <<>> \/ inTask)

\* An event (decoder output, promise resolution, demuxer callback) is taken
\* up only when no continuation is due.
TaskAllowed == microQ = <<>>

\* VideoProcessor.initFile(file) is called.
InitFileCall ==
  /\ CallAllowed
  /\ LET accepted == procState = "idle"
     IN /\ procState' = IF accepted THEN "initializing" ELSE procState
        /\ calls' = Append(calls, Call("initFile", 0, procState,
                                       IF accepted THEN "done" ELSE "threw",
                                       0, 0, <<>>))
  /\ inTask' = (microQ # <<>>)
  /\ UNCHANGED <<storeVars, encVars, pipeVars, pm, previousPromise, promises,
                 microQ, previewQueue, previewDrawn, pipelines, timeRange, exports, canvas,
                 matrix, rotation, machine, dec>>

\* The demuxer of the opened file delivers the samples of the track.
Demux ==
  /\ TaskAllowed
  /\ procState # "idle"
  /\ ~stopSamples
  /\ passed' = Len(track)
  /\ LET added == addSamples(sm, track)
     IN IF added.threw
        THEN /\ sm' = added.sm
             /\ stopSamples' = stopSamples
        ELSE /\ stopSamples' = TRUE
             /\ sm' = finalize(added.sm).sm
  /\ inTask' = FALSE
  /\ UNCHANGED <<track, sel, delivered, exhaustedCalls, extraCalls, lastRun, late, encVars,
                 pipeVars, procState, pm, previousPromise, promises, calls,
                 microQ, previewQueue, previewDrawn, pipelines, timeRange, exports, canvas,
                 matrix, rotation, machine, dec>>

\* Going on without waiting for the store.
NoWaitForReady(m) == TRUE

\* SampleManager.waitForReady() has returned: the store's state is
\* 'finalized' or its ready promise has been resolved.
waitForReady(m) == m.state = "finalized" \/ m.readyResolved

\* VideoProcessor.setup(config) gets past its await of
\* sampleManager.waitForReady(): it has taken config.matrix and set the
\* initial rotation from it, and the processor is 'initialized'.
SetupConfig(configMatrix) ==
  /\ TaskAllowed
  /\ procState = "initializing"
  /\ waitForReady(sm)
  /\ matrix' = configMatrix
  /\ rotation' = setInitialRotation(rotation, configMatrix)
  /\ procState' = "initialized"
  /\ pm' = [NewPreviewManager EXCEPT !.created = TRUE]
  /\ inTask' = FALSE
  /\ UNCHANGED <<storeVars, encVars, pipeVars, previousPromise, promises, calls,
                 microQ, previewQueue, previewDrawn, pipelines, timeRange, exports, canvas,
                 machine, dec>>

\* The same for a file whose track carries the identity matrix.
Setup == SetupConfig(IdentityMatrix)

\* VideoProcessor.renderSampleInPercentage(percentage) is called: it runs up
\* to its first await.
RenderSampleInPercentage(percentage) ==
  /\ CallAllowed
  /\ LET c == Len(calls) + 1
         r == resetProcessor(procState, sm)
         prep == preparePreview(pm, r.sm, percentage)
         w == waitForPreviousPromise(c, 0, previousPromise, microQ, promises)
     IN IF ~AcceptsCall(r.state) \/ prep.threw
        THEN /\ calls' = Append(calls, Call("preview", percentage, procState,
                                            "threw", 0, 0, <<>>))
             /\ procState' = r.state
             /\ sm' = r.sm
             /\ inTask' = (microQ # <<>>)
             /\ UNCHANGED <<pm, previousPromise, promises, microQ>>
        ELSE /\ calls' = Append(calls, Call("preview", percentage, procState,
                                            w.pc, w.temp, prep.handle,
                                            prep.pm.samples))
             /\ procState' = r.state
             /\ sm' = r.sm
             /\ pm' = prep.pm
             /\ previousPromise' = w.previousPromise
             /\ promises' = w.promises
             /\ microQ' = w.microQ
             /\ inTask' = (w.microQ # <<>>)
  /\ UNCHANGED <<track, passed, stopSamples, sel, delivered, exhaustedCalls,
                 extraCalls, lastRun, late, encVars, pipeVars, previewQueue, previewDrawn,
                 pipelines, timeRange, exports, canvas,
                 matrix, rotation, machine, dec>>

\* VideoProcessor.processFileByTime(startMs, endMs) is called: it runs up
\* to the first await of processFile.
ProcessFileByTime(startMs, endMs) ==
  /\ CallAllowed
  /\ LET c == Len(calls) + 1
         o == finalizeTimeRange(sm, startMs, endMs)
         r == resetProcessor(procState, o.sm)
         w == waitForPreviousPromise(c, 0, previousPromise, microQ, promises)
     IN IF o.threw
        THEN /\ calls' = Append(calls, Call("export", <<startMs, endMs>>,
                                            procState, "threw", 0, 0, <<>>))
             /\ sm' = o.sm
             /\ inTask' = (microQ # <<>>)
             /\ UNCHANGED <<procState, previousPromise, promises, microQ,
                            timeRange>>
        ELSE IF ~AcceptsCall(r.state)
        THEN /\ calls' = Append(calls, Call("export", <<startMs, endMs>>,
                                            procState, "threw", 0, 0, <<>>))
             /\ sm' = r.sm
             /\ timeRange' = <<o.ret.outStart, o.ret.outEnd>>
             /\ inTask' = (microQ # <<>>)
             /\ UNCHANGED <<procState, previousPromise, promises, microQ>>
        ELSE /\ calls' = Append(calls, Call("export", <<startMs, endMs>>,
                                            procState, w.pc, w.temp, 0, <<>>))
             /\ sm' = r.sm
             /\ timeRange' = <<o.ret.outStart, o.ret.outEnd>>
             /\ procState' = r.state
             /\ previousPromise' = w.previousPromise
             /\ promises' = w.promises
             /\ microQ' = w.microQ
             /\ inTask' = (w.microQ # <<>>)
  /\ UNCHANGED <<track, passed, stopSamples, sel, delivered, exhaustedCalls,
                 extraCalls, lastRun, late, encVars, pipeVars, pm, previewQueue, previewDrawn,
                 pipelines, exports, canvas,
                 matrix, rotation, machine, dec>>

\* The continuation of call c inside waitForPreviousPromise: the promise
\* it awaited is resolved.
ResumeWait(c) ==
  /\ calls[c].pc = "inner"
  /\ LET w == waitForPreviousPromise(c, calls[c].temp, previousPromise,
                                     Tail(microQ), promises)
     IN /\ calls' = [calls EXCEPT ![c].pc = w.pc, ![c].temp = w.temp]
        /\ previousPromise' = w.previousPromise
        /\ promises' = w.promises
        /\ microQ' = w.microQ
  /\ UNCHANGED <<storeVars, encVars, pipeVars, procState, pm, previewQueue,
                 previewDrawn, pipelines, timeRange, exports, canvas,
                 matrix, rotation, machine, dec>>

\* renderSampleInPercentage continues behind waitForPreviousPromise:
\* executePreview(previewHandle), and previousPromise takes its promise.
ExecutePreview(c) ==
  /\ calls[c].pc = "outer"
  /\ calls[c].op = "preview"
  /\ LET x == executePreview(pm, calls[c].handle)
         p == Len(promises) + 1
     IN /\ calls' = [calls EXCEPT ![c].pc = "done",
                                  ![c].active = pm.previewFrameTimeStamp,
                                  ![c].submitted = x.submitted,
                                  ![c].returned = x.returned]
        /\ IF x.returned = "promise"
           THEN /\ previewQueue' =
                     previewQueue
                       \o [i \in 1..Len(x.submitted) |-> FrameEntry(c, x.submitted[i])]
                       \o <<FlushEntry(p)>>
                /\ promises' = Append(promises, NewPromise)
                /\ previousPromise' = p
           ELSE UNCHANGED <<previewQueue, promises, previousPromise>>
  /\ microQ' = Tail(microQ)
  /\ UNCHANGED <<storeVars, encVars, pipeVars, procState, pm, previewDrawn,
                 pipelines, timeRange, exports, canvas,
                 matrix, rotation, machine, dec>>

\* processFile continues behind waitForPreviousPromise: it creates the
\* pipeline and awaits pipeline.setup.
CreatePipeline(c) ==
  /\ calls[c].pc = "outer"
  /\ calls[c].op \in ExportOps
  /\ pipelines' = Append(pipelines, "idle")
  /\ exports' = Append(exports, NewExport)
  /\ calls' = [calls EXCEPT ![c].pc = "setup", ![c].pipeline = Len(pipelines) + 1]
  /\ microQ' = Append(Tail(microQ), c)
  /\ UNCHANGED <<storeVars, encVars, pipeVars, procState, pm, previousPromise,
                 promises, previewQueue, previewDrawn, timeRange, canvas,
                 matrix, rotation, machine, dec>>

\* processFile continues behind pipeline.setup (which left the pipeline
\* 'ready'): the processor is 'processing' and pipeline.start runs, with
\* its first dispatch(kDecodeQueueSize) on the shared sample store.
StartPipeline(c) ==
  /\ calls[c].pc = "setup"
  /\ procState' = "processing"
  /\ LET k == calls[c].pipeline
         d == requestChunks(sm, kDecodeQueueSize)
     IN /\ sm' = d.sm
        /\ pipelines' = [pipelines EXCEPT
                           ![k] = IF d.ret.exhausted THEN "exhausted" ELSE "processing"]
        /\ exports' = [exports EXCEPT
                         ![k] = [queue |-> [i \in 1..Len(d.ret.chunks) |-> d.ret.chunks[i].cts],
                                 start |-> timeRange[1], end |-> timeRange[2]]]
  /\ calls' = [calls EXCEPT ![c].pc = "running"]
  /\ microQ' = Tail(microQ)
  /\ UNCHANGED <<track, passed, stopSamples, sel, delivered, exhaustedCalls,
                 extraCalls, lastRun, late, encVars, pipeVars, pm, previousPromise, promises,
                 previewQueue, previewDrawn, timeRange, canvas,
                 matrix, rotation, machine, dec>>

\* The continuation due first runs.
RunMicrotask ==
  /\ microQ # <<>>
  /\ inTask' = FALSE
  /\ LET c == Head(microQ)
     IN \/ ResumeWait(c)
        \/ ExecutePreview(c)
        \/ CreatePipeline(c)
        \/ StartPipeline(c)

\* A later preparePreview, for another handle, has replaced the request of
\* call c.
Superseded(c) ==
  \E d \in (c + 1)..Len(calls) :
    /\ calls[d].op = "preview"
    /\ calls[d].pc # "threw"
    /\ calls[d].handle # calls[c].handle

\* The preview decoder outputs its next frame:
\* The preparePreview calls completed so far: every preview request that
\* passed the state check and the store's lookup has run it.
Prepares ==
  Cardinality({c \in 1..Len(calls) :
                 calls[c].op = "preview" /\ calls[c].pc # "threw"})

\* VideoProcessor.handlePreviewDecoderOutput(frame).
PreviewOutput ==
  /\ TaskAllowed
  /\ previewQueue # <<>>
  /\ Head(previewQueue).kind = "frame"
  /\ previewQueue' = Tail(previewQueue)
  /\ LET f == Head(previewQueue)
         d == drawPreview(pm, ChunkTimestamp(f.cts))
     IN IF procState = "initialized" /\ d.drew
        THEN /\ pm' = d.pm
             /\ previewDrawn' =
                  Append(previewDrawn,
                         [req |-> f.req, cts |-> f.cts,
                          superseded |-> Superseded(f.req),
                          prepares |-> Prepares])
             /\ canvas' = canvas \cup {Draw("preview")}
        ELSE UNCHANGED <<pm, previewDrawn, canvas>>
  /\ inTask' = FALSE
  /\ UNCHANGED <<storeVars, encVars, pipeVars, procState, previousPromise,
                 promises, calls, microQ, pipelines, timeRange, exports,
                 matrix, rotation, machine, dec>>

\* The preview decoder has output every frame submitted before a flush: the
\* flush promise resolves and the calls awaiting it become due.
PreviewFlushed ==
  /\ TaskAllowed
  /\ previewQueue # <<>>
  /\ Head(previewQueue).kind = "flush"
  /\ previewQueue' = Tail(previewQueue)
  /\ LET p == Head(previewQueue).req
     IN /\ microQ' = promises[p].waiters
        /\ promises' = [promises EXCEPT ![p] = [resolved |-> TRUE, waiters |-> <<>>]]
  /\ inTask' = FALSE
  /\ UNCHANGED <<storeVars, encVars, pipeVars, procState, pm, previousPromise,
                 calls, previewDrawn, pipelines, timeRange, exports, canvas,
                 matrix, rotation, machine, dec>>

\* The decoder of pipeline k outputs its next frame: handleDecoderOutput
\* chains processFrame, which draws the frame unless it is out of range.
ExportOutput(k) ==
  /\ TaskAllowed
  /\ pipelines[k] \in {"processing", "exhausted"}
  /\ exports[k].queue # <<>>
  /\ exports' = [exports EXCEPT ![k].queue = Tail(@)]
  /\ canvas' = IF OutOfRange(ChunkTimestamp(Head(exports[k].queue)),
                             exports[k].start, exports[k].end)
               THEN canvas
               ELSE canvas \cup {Draw("export")}
  /\ inTask' = FALSE
  /\ UNCHANGED <<storeVars, encVars, pipeVars, procState, pm, previousPromise,
                 promises, calls, microQ, previewQueue, previewDrawn, pipelines,
                 timeRange, matrix, rotation, machine, dec>>

\* The flush of the exhausted pipeline k has resolved, every frame output:
\* the pipeline finalizes (ProcessingPipeline.finalize) and calls
\* onFinalized, VideoProcessor.finalize.
PipelineFinalized(k) ==
  /\ TaskAllowed
  /\ pipelines[k] = "exhausted"
  /\ exports[k].queue = <<>>
  /\ pipelines' = [pipelines EXCEPT ![k] = "finalized"]
  /\ procState' = "finalized"
  /\ calls' = [c \in 1..Len(calls) |->
                 IF calls[c].pipeline = k
                 THEN [calls[c] EXCEPT !.pc = "done"] ELSE calls[c]]
  /\ inTask' = FALSE
  /\ UNCHANGED <<storeVars, encVars, pipeVars, pm, previousPromise, promises,
                 microQ, previewQueue, previewDrawn, timeRange, exports, canvas,
                 matrix, rotation, machine, dec>>

NextProc ==
  \/ InitFileCall
  \/ Demux
  \/ Setup
  \/ \E percentage \in Percentages : RenderSampleInPercentage(percentage)
  \/ \E range \in ExportRanges : ProcessFileByTime(range[1], range[2])
  \/ RunMicrotask
  \/ PreviewOutput
  \/ PreviewFlushed
  \/ \E k \in 1..Len(pipelines) : ExportOutput(k)
  \/ \E k \in 1..Len(pipelines) : PipelineFinalized(k)

\* A processor with a file to open.
InitProc ==
  /\ track \in ProcTracks
  /\ StoreConstructed /\ EncoderConstructed /\ PipelineConstructed
  /\ ProcessorConstructed

SpecProc == InitProc /\ [][NextProc]_vars

\* ------------------------------------------------------------------ previews of a whole file

\* The positions (percent) previews are asked for.
PreviewPercentages == {0, 34, 67, 100}

\* Files in presentation order with any sample a sync point or not.
PreviewTracks == {tr \in Tracks : \A i \in 1..Len(tr) : tr[i].cts = i - 1}

\* Such a file, ingested and set up for previews.  The previews are asked
\* for one after the other before the preview decoder has output anything:
\* each call runs preparePreview at once, and what it selects does not
\* depend on the decoder.
InitPreview ==
  /\ track \in PreviewTracks
  /\ Ingested /\ EncoderConstructed /\ PipelineConstructed /\ ProcessorInitialized

NextPreview ==
  \/ \E percentage \in PreviewPercentages : RenderSampleInPercentage(percentage)
  \/ RunMicrotask

SpecPreview == InitPreview /\ [][NextPreview]_vars

\* Previews of a short file with the decoder's outputs and flushes, on an
\* event loop that runs every due continuation and with a decoder that
\* outputs every frame and resolves every flush.
InitPreviewLive ==
  /\ track \in ProcTracks
  /\ Ingested /\ EncoderConstructed /\ PipelineConstructed /\ ProcessorInitialized

NextPreviewLive ==
  \/ /\ Len(calls) < MaxPreviews
     /\ \E percentage \in Percentages : RenderSampleInPercentage(percentage)
  \/ RunMicrotask
  \/ PreviewOutput
  \/ PreviewFlushed

SpecPreviewLive ==
  /\ InitPreviewLive
  /\ [][NextPreviewLive]_vars
  /\ WF_vars(RunMicrotask)
  /\ WF_vars(PreviewOutput)
  /\ WF_vars(PreviewFlushed)

\* The ranges (ms) of an export over a part of a short file.
SubRanges == {<<0, 300>>, <<300, 500>>}

\* Exports over a part of a short file and previews, on an initialized
\* processor.
NextReexport ==
  \/ \E percentage \in Percentages : RenderSampleInPercentage(percentage)
  \/ \E range \in SubRanges : ProcessFileByTime(range[1], range[2])
  \/ RunMicrotask
  \/ \E k \in 1..Len(pipelines) : ExportOutput(k)
  \/ \E k \in 1..Len(pipelines) : PipelineFinalized(k)

SpecReexport == InitPreviewLive /\ [][NextReexport]_vars

\* MP4Demuxer.onSamples hands the next n samples of the opened file to the
\* store, in a task of its own.
Ingest(n) ==
  /\ TaskAllowed
  /\ procState # "idle"
  /\ OnSamples(n)

\* A processor from its construction on, the file arriving in pieces while
\* previews and exports are asked for.
NextIngest ==
  \/ InitFileCall
  \/ \E n \in 1..MaxProcLen : Ingest(n)
  \/ Setup
  \/ \E percentage \in Percentages : RenderSampleInPercentage(percentage)
  \/ \E range \in ExportRanges : ProcessFileByTime(range[1], range[2])
  \/ RunMicrotask
  \/ \E k \in 1..Len(pipelines) : ExportOutput(k)
  \/ \E k \in 1..Len(pipelines) : PipelineFinalized(k)

SpecIngest == InitProc /\ [][NextIngest]_vars

\* ------------------------------------------------------------------ configuration errors

\* The (startMs, endMs) pairs of an export by time: a range inside the file,
\* a start beyond the last sample, an end before the first sample, and an
\* end before the start.
ConfigRanges == {<<0, 500>>, <<5000, Undefined>>, <<Undefined, -5>>, <<300, 0>>}

\* The (startIndex, endIndex) pairs of an export by frame: a range inside
\* the file, an end before the start, and a start beyond the last sample.
FrameRanges == {<<0, 1>>, <<1, 0>>, <<MaxProcLen, MaxProcLen + 1>>}

\* VideoProcessor.initFile(file) is called with a file whose video track
\* has, or has not, a decoder description box.
OpenFile(described) ==
  /\ CallAllowed
  /\ LET accepted == procState = "idle"
     IN /\ procState' = IF accepted THEN "initializing" ELSE procState
        /\ calls' = Append(calls, Call("initFile", described, procState,
                                       IF accepted THEN "done" ELSE "threw",
                                       0, 0, <<>>))
  /\ inTask' = (microQ # <<>>)
  /\ UNCHANGED <<storeVars, encVars, pipeVars, pm, previousPromise, promises,
                 microQ, previewQueue, previewDrawn, pipelines, timeRange, exports, canvas,
                 matrix, rotation, machine, dec>>

\* MP4Demuxer.onReady got past getDescription(track), which throws when
\* the track has no avcC, hvcC, vpcC or av1C box: only then is onConfig
\* called with the configuration and the extraction of samples started.
DescriptionFound ==
  \E c \in 1..Len(calls) :
    calls[c].op = "initFile" /\ calls[c].pc = "done" /\ calls[c].arg = TRUE

\* VideoProcessor.processFileByFrame(startIndex, endIndex) is called: it
\* runs up to the first await of processFile.
ProcessFileByFrame(startIndex, endIndex) ==
  /\ CallAllowed
  /\ LET c == Len(calls) + 1
         o == finalizeSampleInIndex(sm, startIndex, endIndex)
         r == resetProcessor(procState, o.sm)
         w == waitForPreviousPromise(c, 0, previousPromise, microQ, promises)
     IN IF o.threw
        THEN /\ calls' = Append(calls, Call("exportByFrame", <<startIndex, endIndex>>,
                                            procState, "threw", 0, 0, <<>>))
             /\ sm' = o.sm
             /\ inTask' = (microQ # <<>>)
             /\ UNCHANGED <<procState, previousPromise, promises, microQ,
                            timeRange>>
        ELSE IF ~AcceptsCall(r.state)
        THEN /\ calls' = Append(calls, Call("exportByFrame", <<startIndex, endIndex>>,
                                            procState, "threw", 0, 0, <<>>))
             /\ sm' = r.sm
             /\ timeRange' = <<o.ret.outStart, o.ret.outEnd>>
             /\ inTask' = (microQ # <<>>)
             /\ UNCHANGED <<procState, previousPromise, promises, microQ>>
        ELSE /\ calls' = Append(calls, Call("exportByFrame", <<startIndex, endIndex>>,
                                            procState, w.pc, w.temp, 0, <<>>))
             /\ sm' = r.sm
             /\ timeRange' = <<o.ret.outStart, o.ret.outEnd>>
             /\ procState' = r.state
             /\ previousPromise' = w.previousPromise
             /\ promises' = w.promises
             /\ microQ' = w.microQ
             /\ inTask' = (w.microQ # <<>>)
  /\ UNCHANGED <<track, passed, stopSamples, sel, delivered, exhaustedCalls,
                 extraCalls, lastRun, late, encVars, pipeVars, pm, previewQueue, previewDrawn,
                 pipelines, exports, canvas,
                 matrix, rotation, machine, dec>>

\* The demuxer delivers samples only after onReady has passed the
\* configuration on.
DemuxDescribed == DescriptionFound /\ Demux

\* setup(config) runs only if onConfig was called.
SetupDescribed == DescriptionFound /\ Setup

NextConfig ==
  \/ \E described \in BOOLEAN : OpenFile(described)
  \/ DemuxDescribed
  \/ SetupDescribed
  \/ \E range \in ConfigRanges : ProcessFileByTime(range[1], range[2])
  \/ \E range \in FrameRanges : ProcessFileByFrame(range[1], range[2])
  \/ RunMicrotask
  \/ \E k \in 1..Len(pipelines) : ExportOutput(k)
  \/ \E k \in 1..Len(pipelines) : PipelineFinalized(k)

SpecConfig == InitProc /\ [][NextConfig]_vars

\* ------------------------------------------------------------------ the processor state object

\* The states VideoProcessorState names.
MachineStates ==
  {"idle", "initializing", "initialized", "processing", "finalized", "error"}

\* VideoProcessorState.transitions: the states each state may move to.
transitions ==
  [s \in MachineStates |->
     CASE s = "idle"         -> {"initializing", "error"}
       [] s = "initializing" -> {"initialized", "error"}
       [] s = "initialized"  -> {"processing", "finalized", "error"}
       [] s = "processing"   -> {"finalized", "error"}
       [] s = "finalized"    -> {"initialized", "idle"}
       [] s = "error"        -> {"idle", "initializing"}]

\* Promises a caller may hand to the state object, by number; 0 is null.
MachinePromises == 1 .. MaxCalls

machineRest ==
  <<storeVars, encVars, pipeVars, procState, pm, previousPromise, promises, calls,
    microQ, inTask, previewQueue, previewDrawn, pipelines, timeRange, exports,
    canvas, matrix, rotation, dec>>

\* VideoProcessorState.transitionTo(newState): a transition the table does
\* not list is logged with console.error and answered with false, any other
\* one is made and answered with true; the method has no throw statement.
\* The field returned holds the answer of the latest call.
TransitionTo(newState) ==
  /\ machine' = IF newState \in transitions[machine.currentState]
                THEN [machine EXCEPT !.currentState = newState,
                                     !.returned = "true"]
                ELSE [machine EXCEPT !.returned = "false"]
  /\ UNCHANGED machineRest

\* VideoProcessorState.setProcessingPromise(promise, resolve), with the
\* promise's own resolve function.
SetProcessingPromise(p) ==
  /\ machine' = [machine EXCEPT !.processingPromise = p, !.processingResolve = p]
  /\ UNCHANGED machineRest

\* VideoProcessorState.resolveProcessing().
ResolveProcessing ==
  /\ machine' = IF machine.processingResolve # 0
                THEN [machine EXCEPT !.processingPromise = 0,
                                     !.processingResolve = 0]
                ELSE machine
  /\ UNCHANGED machineRest

\* VideoProcessorState.setPreviousPromise(promise).
SetPreviousPromise(p) ==
  /\ machine' = [machine EXCEPT !.previousPromise = p]
  /\ UNCHANGED machineRest

\* VideoProcessorState.clearPreviousPromise().
ClearPreviousPromise ==
  /\ machine' = [machine EXCEPT !.previousPromise = 0]
  /\ UNCHANGED machineRest

\* VideoProcessorState.reset().
ResetMachine ==
  /\ machine' = NewVideoProcessorState
  /\ UNCHANGED machineRest

\* A VideoProcessorState just constructed, beside a processor just
\* constructed.
InitMachine ==
  /\ track \in ProcTracks
  /\ StoreConstructed /\ EncoderConstructed /\ PipelineConstructed
  /\ ProcessorConstructed

NextMachine ==
  \/ \E newState \in MachineStates : TransitionTo(newState)
  \/ \E p \in MachinePromises : SetProcessingPromise(p)
  \/ ResolveProcessing
  \/ \E p \in MachinePromises : SetPreviousPromise(p)
  \/ ClearPreviousPromise
  \/ ResetMachine

SpecMachine == InitMachine /\ [][NextMachine]_vars

\* ------------------------------------------------------------------ initial rotation

\* Entries of the (a, b, c, d) sub-block: -1, 0 and 1 in 16.16 fixed point,
\* and one half, which is none of them.
MatrixEntries == {-65536, 0, 65536, 32768}

\* The matrices a track may carry.
Matrices ==
  {TrackMatrix(a, b, c, d) : a \in MatrixEntries, b \in MatrixEntries,
                             c \in MatrixEntries, d \in MatrixEntries}

InitRotation ==
  /\ track \in ProcTracks
  /\ StoreConstructed /\ EncoderConstructed /\ PipelineConstructed
  /\ ProcessorConstructed

\* Opening a file whose track carries any of the matrices, or none.
NextRotation ==
  \/ InitFileCall
  \/ Demux
  \/ \E m \in Matrices \cup {NoMatrix} : SetupConfig(m)

SpecRotation == InitRotation /\ [][NextRotation]_vars

\* ------------------------------------------------------------------ claims: the sample store

\* A finalizeTimeRange call has returned and its range is the active one.
TimeRangeReturned == sel.op = "time" /\ ~sel.threw

\* The active range is the slice of the full sequence the call computed.
ActiveIsSlice ==
  sm.samples = Slice(sm.originalSamples, sel.startIndex, sel.endIndex)

NonDecreasing(arr) ==
  \A i \in 1..Len(arr) : \A j \in i..Len(arr) : arr[i].cts <= arr[j].cts

\* The highest index whose sample time is <= targetTime, or -1.
HighestAtOrBefore(arr, targetTime) ==
  LET at == {i \in 0..(Len(arr) - 1) : TimeLessEq(At(arr, i), targetTime)}
  IN IF at = {} THEN -1 ELSE CHOOSE i \in at : \A j \in at : j <= i

\* The range stops at the end of the full sequence or right before a sync
\* point.
EndsOnGopBoundary ==
  \/ sel.endIndex = Len(sm.originalSamples)
  \/ At(sm.originalSamples, sel.endIndex).is_sync

\* Every index from the start of the range up to last lies in the range.
ContainsUpTo(last) ==
  \A i \in sel.startIndex..last : i < sel.endIndex

\* C2, as stated: with an explicit endMs the range ends on a GOP boundary
\* and holds every sample up to the highest index whose time is <= endMs.
C2_EndsOnGopBoundaryPastEnd ==
  (TimeRangeReturned /\ sel.end # Undefined) =>
    /\ EndsOnGopBoundary
    /\ ContainsUpTo(HighestAtOrBefore(sm.originalSamples, sel.end))

\* C2, amended: with an explicit endMs the range ends on a GOP boundary and
\* holds every sample up to the index the binary search returned; that
\* index is the highest one whose time is <= endMs when the sample times
\* are non-decreasing along the sequence.
C2_EndsOnGopBoundaryPastSearch ==
  (TimeRangeReturned /\ sel.end # Undefined) =>
    /\ EndsOnGopBoundary
    /\ ContainsUpTo(sel.preciousEndIndex)
    /\ NonDecreasing(sm.originalSamples) =>
         sel.preciousEndIndex = HighestAtOrBefore(sm.originalSamples, sel.end)

\* A selection with an explicit end inside the track that had to advance
\* past delta samples to stop right before a later sync point.
C2_Witness ==
  /\ TimeRangeReturned /\ sel.end # Undefined
  /\ NonDecreasing(sm.originalSamples)
  /\ sel.preciousEndIndex + 1 < sel.endIndex
  /\ sel.endIndex < Len(sm.originalSamples)
  /\ Len(sm.samples) > 0

\* C3: over any sequence of requestChunks calls after a selection, onChunk
\* receives the samples of the active range in order, each once, and
\* onExhausted is invoked exactly once, after the last sample.
C3_ExhaustedExactlyOnce ==
  (sel.op # "none" /\ ~sel.threw) =>
    /\ delivered = Slice(sm.samples, 0, Len(delivered))
    /\ exhaustedCalls <= 1
    /\ exhaustedCalls = 1 => delivered = sm.samples
    /\ (Len(delivered) > 0 /\ delivered = sm.samples) => exhaustedCalls = 1

\* ------------------------------------------------------------------ claims: the export pipeline

\* The chained frames that processFrame has begun and not completed.
InProcessFrame == {i \in 1..Len(tasks) : tasks[i].st \in {"waiting", "resumed"}}

\* C4: processFrame of a frame has begun only if processFrame of every
\* frame delivered before it has completed (its encode call and any wait
\* for the encode queue included), so at most one frame is between its
\* draw and the end of its encode call.
C4_OneFrameAtATime ==
  /\ \A i \in 1..Len(tasks) :
       tasks[i].st # "queued" => \A j \in 1..(i - 1) : tasks[j].st = "fulfilled"
  /\ Cardinality(InProcessFrame) <= 1

\* A frame is held inside encoder.encode by the full queue while a frame
\* delivered after it stands behind it in the chain.
C4_Witness ==
  \E i \in 1..Len(tasks) : \E j \in 1..Len(tasks) :
    i < j /\ tasks[i].st = "waiting" /\ tasks[j].st = "queued"

Increasing(s) == \A i \in 1..Len(s) : \A j \in 1..Len(s) : i < j => s[i] < s[j]

\* The frames delivered so far that processFrame does not skip, in
\* delivery order.
InRangeArrivals ==
  LET InRange(task) == ~OutOfRange(ChunkTimestamp(task.frame), rangeStart, rangeEnd)
      kept == SelectSeq(tasks, InRange)
  IN [i \in 1..Len(kept) |-> kept[i].frame]

C6_QueueDepthBounded == enc.encodeQueueSize <= kEncodeQueueSize + 1

\* Calls that waited have been released together and have refilled the
\* queue to one above the mark, and a call is waiting again.
C6_Witness ==
  /\ enc.frameCount > kEncodeQueueSize + 1
  /\ enc.encodeQueueSize = kEncodeQueueSize + 1
  /\ encWaiting >= 1

\* ------------------------------------------------------------------ claims: preview and processor

\* C7: once a later preparePreview (for another handle) has replaced a
\* preview request whose decode has not finished, no frame decoded for the
\* replaced request is drawn by drawPreview.
C7_SupersededNeverDrawn ==
  \A i \in 1..Len(previewDrawn) : ~previewDrawn[i].superseded

\* The executePreview calls made so far.
Executed == {c \in 1..Len(calls) : calls[c].op = "preview" /\ calls[c].returned # "none"}

\* C8: executePreview(handle) returns null and submits nothing when handle
\* is not the active handle; otherwise it submits exactly the samples that
\* were prepared for that handle, in order, and returns the flush promise.
C8_ExecutePreviewContract ==
  \A c \in Executed :
    IF calls[c].handle # calls[c].active
    THEN calls[c].returned = "null" /\ calls[c].submitted = <<>>
    ELSE calls[c].returned = "promise" /\ calls[c].submitted = calls[c].prepared

\* The calls that did not throw.
Accepted(op) == {c \in 1..Len(calls) : calls[c].op = op /\ calls[c].pc # "threw"}

\* C9: a preview or an export is accepted only by a processor that is
\* 'initialized' or 'finalized' (which is reset to 'initialized') when the
\* call is made, and initFile only by one that is 'idle'; a call made in
\* any other state throws, and every preview decode and every pipeline
\* belongs to an accepted call.
C9_StartsOnlyWhenInitialized ==
  /\ \A c \in Accepted("preview") \cup Accepted("export") :
       calls[c].stateAtCall \in {"initialized", "finalized"}
  /\ \A c \in Accepted("initFile") : calls[c].stateAtCall = "idle"
  /\ \A i \in 1..Len(previewQueue) :
       previewQueue[i].kind = "frame" => previewQueue[i].req \in Accepted("preview")
  /\ \A k \in 1..Len(pipelines) :
       \E c \in Accepted("export") : calls[c].pipeline = k

\* An export call made while an export runs has thrown, and after that
\* export has finalized a preview call has been accepted and has decoded.
C9_Witness ==
  /\ \E c \in 1..Len(calls) :
       /\ calls[c].op = "export"
       /\ calls[c].pc = "threw"
       /\ calls[c].stateAtCall = "processing"
  /\ \E c \in Accepted("preview") :
       /\ calls[c].stateAtCall = "finalized"
       /\ calls[c].returned = "promise"

\* C10: at most one accepted export call has not seen its export finalize,
\* and at most one pipeline is not finalized.
C10_AtMostOneExport ==
  /\ Cardinality({c \in Accepted("export") : calls[c].pc # "done"}) <= 1
  /\ Cardinality({k \in 1..Len(pipelines) : pipelines[k] # "finalized"}) <= 1

\* C11: preview rendering and export rendering are never both active on the
\* canvas: no preview frame is drawn while an export that has drawn a frame,
\* or any other started export, has not finalized, and no export frame is
\* drawn while the processor state is 'initialized'.
C11_PreviewAndExportExclusive ==
  \A d \in canvas :
    /\ d.kind = "preview" => ~(d.drew /\ d.running)
    /\ d.kind = "export" => d.state # "initialized"

\* ------------------------------------------------------------------ claims: the store after ingestion

\* A store that has just ingested the track, and the last selection as that
\* store computes it.
FreshStore == finalize(addSamples(NewSampleManager, track).sm).sm
FreshSelection ==
  IF sel.op = "time"
  THEN finalizeTimeRange(FreshStore, sel.start, sel.end)
  ELSE finalizeSampleInIndex(FreshStore, sel.start, sel.end)

\* C16: after ingestion the full original sequence is never changed by
\* selections, chunk pulls and resets, and whatever came before it a
\* selection (by time or by index) returns, or throws, and leaves the active
\* range exactly as it does on a freshly ingested store.
C16_SelectionFromOriginal ==
  /\ ~sm.originalIsNull
  /\ sm.originalSamples = track
  /\ sel.op # "none" =>
       /\ sel = Selection(sel.op, sel.start, sel.end, FreshSelection)
       /\ sm.samples = FreshSelection.sm.samples

\* After a run and a reset, a selection by index has returned the whole
\* track.
C16_Witness ==
  /\ lastRun.prior
  /\ sel.op = "index"
  /\ ~sel.threw
  /\ Len(track) = MaxLen
  /\ sel.count = Len(track)

\* C17: since resetForReprocessing the active range and the full sequence
\* are what they were before it, the cursor restarted at 0, and the chunks
\* delivered since are the active range from its start on, the same
\* samples in the same order as in the run before.
C17_ResetReplaysRange ==
  lastRun.reset =>
    /\ sm.samples = lastRun.active
    /\ sm.originalSamples = lastRun.original
    /\ sm.currentIndex = Len(delivered)
    /\ delivered = Slice(sm.samples, 0, Len(delivered))
    /\ \A i \in 1..Len(delivered) :
         i <= Len(lastRun.delivered) => delivered[i] = lastRun.delivered[i]

\* The run after a reset has delivered again all that the run before it
\* delivered.
C17_Witness ==
  /\ lastRun.reset
  /\ Len(delivered) >= 2
  /\ delivered = lastRun.delivered

\* C18: an addSamples call made after finalize() throws and leaves the full
\* sequence as it was.
C18_AddAfterFinalizeFails ==
  late.op = "addSamples" => late.threw /\ late.after = late.before

\* C19: a second finalize() call does not throw and leaves the state
\* 'finalized', the frozen sequence as it was and the ready wait resolved.
C19_FinalizeIdempotent ==
  late.op = "finalize" =>
    /\ ~late.threw
    /\ late.state = "finalized"
    /\ late.after = late.before
    /\ late.ready

\* The requested endIndex, clamped to the last sample of the track.
ClampedEnd == IF sel.end >= Len(track) THEN Len(track) - 1 ELSE sel.end

\* C20: finalizeSampleInIndex(startIndex, endIndex) throws exactly when
\* startIndex is greater than the clamped endIndex; when it returns, the
\* active range starts at the sync point at or before startIndex, ends at
\* the clamped endIndex, and actualStartMs <= actualEndMs.
C20_IndexRangeContract ==
  sel.op = "index" =>
    /\ sel.threw <=> sel.start > ClampedEnd
    /\ ~sel.threw =>
         /\ sel.startIndex = RewindToSync(track, sel.start)
         /\ sel.endIndex = ClampedEnd
         /\ sel.outStart <= sel.outEnd

\* ------------------------------------------------------------------ claims: the export run

ExportRunning == pipeState \in {"processing", "exhausted"}

\* C13: every started export, whatever the size of its range, eventually is
\* 'finalized' with the promise of start resolved; and that promise is
\* never resolved before encoder.finalize has returned and the processor
\* is 'finalized'.
C13_ExportTerminates ==
  /\ ExportRunning ~> (pipeState = "finalized" /\ startResolved)
  /\ [](startResolved =>
         /\ encFinalizeCalls = 1
         /\ finalizePc = "done"
         /\ procState = "finalized")

\* An export over a range without samples has finalized and resolved.
C13_Witness ==
  /\ startResolved
  /\ pipeState = "finalized"
  /\ ~sel.threw
  /\ sel.count = 0

\* The frames in s, a sequence of composition times.
FramesOf(s) == {s[i] : i \in 1..Len(s)}

\* The sample time of the frame lies in the closed range the selection
\* returned (all three as numerators over Timescale).
InSelectedRange(cts) == rangeStart <= cts * 1000 /\ cts * 1000 <= rangeEnd

\* C14: of the frames processFrame has dealt with, it has drawn and encoded
\* exactly those whose sample time lies in [rangeStartMs, rangeEndMs], the
\* bounds included, and closed the others without encoding them.
C14_EncodesExactlyTheRange ==
  \A i \in 1..Len(tasks) :
    tasks[i].st = "fulfilled" =>
      /\ tasks[i].frame \in FramesOf(encoded) <=> InSelectedRange(tasks[i].frame)
      /\ tasks[i].frame \in FramesOf(drawn) <=> InSelectedRange(tasks[i].frame)

\* C15: when an export over [startMs, endMs], startMs <= endMs, of the file
\* with regularly spaced sync points has finalized, the number of frames
\* encoded equals the count
\* finalizeTimeRange returned for it (the export's displayed total).
C15_EncodedCountIsReturnedCount ==
  (track = LongTrack /\ finalizePc = "done" /\ ~sel.threw /\ sel.start <= sel.end) =>
    Len(encoded) = sel.count

\* ------------------------------------------------------------------ claims: configuration errors

\* The times of the first and the last sample of the file (numerators).
FirstTime == SampleTimeMsNum(track[1])
LastTime == SampleTimeMsNum(track[Len(track)])

\* Call c is a configuration error: initFile on a file without a decoder
\* description, or an export of a finalized store over a range that starts
\* beyond the last sample, ends before the first one, or ends before it
\* starts.
ConfigError(c) ==
  \/ calls[c].op = "initFile" /\ calls[c].stateAtCall = "idle" /\ calls[c].arg = FALSE
  \/ /\ calls[c].op = "export"
     /\ calls[c].stateAtCall \in {"initialized", "finalized"}
     /\ LET startMs == calls[c].arg[1]
            endMs == calls[c].arg[2]
        IN \/ startMs # Undefined /\ startMs * Timescale > LastTime
           \/ endMs # Undefined /\ endMs * Timescale < FirstTime
           \/ startMs # Undefined /\ endMs # Undefined /\ endMs < startMs
  \/ /\ calls[c].op = "exportByFrame"
     /\ calls[c].stateAtCall \in {"initialized", "finalized"}
     /\ \/ calls[c].arg[1] >= Len(track)
        \/ calls[c].arg[2] < calls[c].arg[1]

\* C21: a configuration error (initFile on a file without a decoder
\* description, processFileByTime or processFileByFrame over an invalid or
\* empty range) makes the call fail at once, before any sample is decoded,
\* and leaves the processor state equal to 'error'.
C21_ConfigErrorLeavesError ==
  \A c \in 1..Len(calls) :
    (c = Len(calls) /\ ConfigError(c)) =>
      calls[c].pc = "threw" /\ procState = "error"

\* ------------------------------------------------------------------ claims: failures during an export

\* Something has failed in the export: a native codec has reported an
\* error, or a frame's processing has thrown.
Failed == fault # "none" \/ \E i \in 1..Len(tasks) : tasks[i].st \in Rejected

\* Nothing more can happen in the run.
Quiescent == ~ENABLED NextFault

\* C22: when the native decoder or encoder fails during an export, or
\* drawing or encoding a frame throws, the processor state becomes 'error':
\* once nothing more can happen, the processor is not left 'processing'
\* with its completion promise unsettled.
C22_FailureLeadsToError ==
  (Failed /\ Quiescent) => procState = "error"

\* ------------------------------------------------------------------ claims: the processor state object

\* C23: once the state object is in 'error', no operation on it moves it to
\* any other state.
C23_ErrorIsTerminal ==
  [][machine.currentState = "error" => machine'.currentState = "error"]_vars

\* ------------------------------------------------------------------ claims: initial rotation

\* The (a, b, c, d) sub-block of the matrix the processor has taken.
SubBlock == <<matrix[1], matrix[2], matrix[4], matrix[5]>>

SetupWithMatrix == procState = "initialized" /\ matrix # NoMatrix

\* The rotation the sub-block stands for, the counter-clockwise quarter
\* turn being named as the code names it.
RotationOf(counterClockwise) ==
  IF matrix[1] = -65536 /\ matrix[5] = -65536 THEN 180
  ELSE IF SubBlock = <<0, 65536, -65536, 0>> THEN 90
  ELSE IF SubBlock = <<0, -65536, 65536, 0>> THEN counterClockwise
  ELSE 0

\* C30 (as stated): after setup the rotation is 180 for a = -1, d = -1, 90
\* for a = 0, b = 1, c = -1, d = 0, 270 for a = 0, b = -1, c = 1, d = 0,
\* and 0 for any other matrix.
C30_RotationIn0To270 == SetupWithMatrix => rotation = RotationOf(270)

\* C30 (amended): the same, except that a = 0, b = -1, c = 1, d = 0 gives
\* -90, the same turn as 270 written as a negative angle.
C30_RotationFromMatrix == SetupWithMatrix => rotation = RotationOf(-90)

\* Setup has run on a track whose matrix is the counter-clockwise quarter
\* turn, the case the two statements differ on.
C30_Witness ==
  /\ SetupWithMatrix
  /\ SubBlock = <<0, -65536, 65536, 0>>
  /\ rotation = -90

\* ------------------------------------------------------------------ claims: frame lifetime

\* The chained frames whose encode call has settled: processFrame went as
\* far as encoder.encode, and that call has returned or thrown.
EncodeSettled ==
  {i \in 1..Len(tasks) :
     /\ tasks[i].st \in {"fulfilled", "encodeFailed"}
     /\ Drawn(tasks[i].frame) \in DOMAIN frames}

\* C24: every frame passed to VideoEncoder.encode has been closed once the
\* call has settled, whether the native encode call succeeded or threw.
C24_EncodeClosesFrame ==
  \A i \in EncodeSettled : frames[Drawn(tasks[i].frame)] >= 1

\* The frames the decoder has handed to the pipeline.
DecodedFrames == {id \in DOMAIN frames : id[1] = "decoded"}

\* C25: every decoded frame handed to the pipeline is closed at most once,
\* and once the export has settled (nothing is left to run) every one of
\* them has been closed.
C25_DecodedFrameClosedOnce ==
  /\ \A id \in DecodedFrames : frames[id] <= 1
  /\ Quiescent => \A id \in DecodedFrames : frames[id] = 1

\* ------------------------------------------------------------------ claims: key frames

\* keyframeInterval = round(fps) of the encoder.
KeyframeInterval == MathRound(enc.fps)

\* C26: for every fps, the N-th frame passed to the native encoder (from 1)
\* is hinted as a key frame exactly when N mod keyframeInterval = 1, and
\* the first frame is always hinted.
C26_KeyframeEveryInterval ==
  /\ KeyframeInterval > 0 =>
       \A n \in 1..enc.frameCount :
         n \in enc.keyFrames <=> n % KeyframeInterval = 1
  /\ enc.frameCount >= 1 => 1 \in enc.keyFrames

\* ------------------------------------------------------------------ claims: the binary searches

\* The lowest index whose sample time is >= targetTime, or -1.
LowestAtOrAfter(arr, targetTime) ==
  LET at == {i \in 0..(Len(arr) - 1) : ~TimeLess(At(arr, i), targetTime)}
  IN IF at = {} THEN -1 ELSE CHOOSE i \in at : \A j \in at : i <= j

\* The last selection was finalizeTimeRange(t, undefined), and some sample
\* is at or after t.
StartOnly ==
  /\ sel.op = "time" /\ sel.start # Undefined /\ sel.end = Undefined
  /\ LowestAtOrAfter(sm.originalSamples, sel.start) # -1

\* The last selection was finalizeTimeRange(undefined, t), and some sample
\* is at or before t.
EndOnly ==
  /\ sel.op = "time" /\ sel.start = Undefined /\ sel.end # Undefined
  /\ HighestAtOrBefore(sm.originalSamples, sel.end) # -1

\* C27: on a finalized sequence whose sample times never decrease,
\* finalizeTimeRange(t, undefined) takes as its start index before the
\* rewind the lowest index whose sample time is >= t, and
\* finalizeTimeRange(undefined, t) takes as its end index before the advance
\* the highest index whose sample time is <= t; the times it returns are
\* the times of exactly those samples.
C27_SearchesFindTheBounds ==
  NonDecreasing(sm.originalSamples) =>
    /\ StartOnly =>
         LET lo == LowestAtOrAfter(sm.originalSamples, sel.start)
         IN /\ ~sel.threw
            /\ sel.preciousStartIndex = lo
            /\ sel.outStart = SampleTimeMsNum(At(sm.originalSamples, lo))
    /\ EndOnly =>
         LET hi == HighestAtOrBefore(sm.originalSamples, sel.end)
         IN /\ ~sel.threw
            /\ sel.preciousEndIndex = hi
            /\ sel.outEnd = SampleTimeMsNum(At(sm.originalSamples, hi))

\* An end-only selection on a file in which two samples share the time
\* asked for, and later samples follow: the end index is the second of
\* the two, and it is not the last sample.
C27_Witness ==
  /\ EndOnly
  /\ ~sel.threw
  /\ sel.preciousEndIndex > 0
  /\ sel.preciousEndIndex < Len(sm.originalSamples) - 1
  /\ TimeLessEq(At(sm.originalSamples, sel.preciousEndIndex - 1), sel.end)
  /\ ~TimeLess(At(sm.originalSamples, sel.preciousEndIndex - 1), sel.end)
  /\ ~TimeLess(At(sm.originalSamples, sel.preciousEndIndex), sel.end)

\* ------------------------------------------------------------------ claims: preview samples

\* floor(p / 100 * (N - 1)) for a sequence of N samples.
TargetIndex(arr, p) == (p * (Len(arr) - 1)) \div 100

\* The greatest index <= t holding a sync point, or -1.
SyncAtOrBefore(arr, t) ==
  LET at == {i \in 0..t : At(arr, i).is_sync}
  IN IF at = {} THEN -1 ELSE CHOOSE i \in at : \A j \in at : j <= i

PreviewCalls == {c \in 1..Len(calls) : calls[c].op = "preview"}

\* What the preview call c got from findSamplesAtPercentage is the run of
\* samples from index k to its target, not empty and with no sync point
\* behind its first sample.
ReturnsFrom(c, k) ==
  LET t == TargetIndex(sm.samples, calls[c].arg)
  IN /\ calls[c].pc # "threw"
     /\ calls[c].prepared = Slice(sm.samples, k, t + 1)
     /\ calls[c].prepared # <<>>
     /\ calls[c].prepared[Len(calls[c].prepared)] = At(sm.samples, t)
     /\ \A j \in 2..Len(calls[c].prepared) : ~calls[c].prepared[j].is_sync

ExportInFlight ==
  \E c \in 1..Len(calls) :
    calls[c].op \in ExportOps /\ calls[c].pc \notin {"threw", "done"}

\* This step is a call of renderSampleInPercentage.
PreviewRequested ==
  /\ Len(calls') = Len(calls) + 1
  /\ calls'[Len(calls')].op = "preview"

\* C29: a preview request made while an export is in flight changes
\* neither the active range of the sample store nor its cursor.
C29_PreviewLeavesExportAlone ==
  [][(ExportInFlight /\ PreviewRequested) =>
       (sm'.samples = sm.samples /\ sm'.currentIndex = sm.currentIndex)]_vars

\* ------------------------------------------------------------------ claims: requested transitions

\* The state sequence the specification documents: the chain from idle to
\* finalized, error from every state before finalized, and finalized back to
\* initialized.
DocumentedTransitions ==
  {<<"idle", "initializing">>, <<"initializing", "initialized">>,
   <<"initialized", "processing">>, <<"processing", "exhausted">>,
   <<"exhausted", "finalized">>, <<"finalized", "initialized">>}
    \cup {<<s, "error">> :
            s \in {"idle", "initializing", "initialized", "processing",
                   "exhausted"}}

\* C31: the state changes only along the documented sequence, and a requested
\* transition outside it is never answered by a mere false return value.
C31_OnlyDocumentedAndLoud ==
  [][/\ machine'.currentState # machine.currentState
        => <<machine.currentState, machine'.currentState>>
             \in DocumentedTransitions
     /\ machine'.returned # "false"]_vars

\* ------------------------------------------------------------------ claims: one draw for a prepared preview

\* C32: the draw callback runs at most once between two preparePreview calls,
\* and only for a frame whose time in whole milliseconds is that of the handle
\* the latest preparePreview returned: once a frame is drawn, every further
\* frame is discarded until the next preparePreview.
C32_OneDrawPerPrepare ==
  /\ \A i, j \in 1..Len(previewDrawn) :
       i # j => previewDrawn[i].prepares # previewDrawn[j].prepares
  /\ \A i \in 1..Len(previewDrawn) :
       LET latest ==
             CHOOSE c \in 1..Len(calls) :
               /\ calls[c].op = "preview" /\ calls[c].pc # "threw"
               /\ Cardinality({d \in 1..c : calls[d].op = "preview"
                                              /\ calls[d].pc # "threw"})
                    = previewDrawn[i].prepares
       IN FrameTimeMs(ChunkTimestamp(previewDrawn[i].cts))
            = calls[latest].handle \div Timescale

\* ------------------------------------------------------------------ claims: decoder dispatch

\* C33: one signal, be it the decoder's dequeue event or the dispatch
\* timer, submits at most kDecodeQueueSize - decodeQueueSize chunks, and the
\* depth of the native decode queue never exceeds kDecodeQueueSize.
C33_DecodeQueueBounded ==
  /\ [](dec.decodeQueueSize <= kDecodeQueueSize)
  /\ [][Len(delivered') - Len(delivered)
          <= kDecodeQueueSize - dec.decodeQueueSize]_vars

\* A later signal has refilled the queue to the full window, on a pipeline
\* still 'processing'.
C33_Witness ==
  /\ dec.decodeQueueSize = kDecodeQueueSize
  /\ Len(delivered) > kDecodeQueueSize
  /\ pipeState = "processing"

\* C34: with the timer as the only signal, the chunks handed to the decoder
\* are at every moment the active range up to the cursor, each sample once
\* and in order, and the whole range once the pipeline has left
\* 'processing'; every started export is eventually finalized with the
\* promise of start resolved; at most one timeout is armed at any time, and
\* a timeout that fires and leaves the pipeline outside 'processing' arms no
\* other.
C34_TimerDispatchEquivalent ==
  /\ [](pipeState # "idle" =>
          /\ ~sm.samplesIsNull
          /\ Len(delivered) <= Len(sm.samples)
          /\ delivered = SubSeq(sm.samples, 1, Len(delivered)))
  /\ [](pipeState \in {"exhausted", "finalized"} => delivered = sm.samples)
  /\ ExportRunning ~> (pipeState = "finalized" /\ startResolved)
  /\ [](dec.timers <= 1)
  /\ [][(TimerFires /\ pipeState' # "processing") => dec'.timers = 0]_vars

\* The export of the whole long file has finalized, the timer having asked
\* for the chunks beyond the first window.
C34_Witness ==
  /\ ~dec.isChromeBased
  /\ finalizePc = "done"
  /\ startResolved
  /\ Len(delivered) = NumFrames
  /\ dec.timers = 0

\* ------------------------------------------------------------------ claims: the encoder gate

\* C35: every encode call suspended on the gate eventually resumes and
\* submits its frame; and no waiter is lost: while a call waits, the shared
\* promise is set and either the queue still holds kEncodeQueueSize frames
\* or more, or a dequeue event is still to fire.
C35_WaitersResume ==
  /\ (encWaiting + encResumed > 0) ~> (encWaiting + encResumed = 0)
  /\ [](encWaiting > 0 =>
          /\ enc.blockingPromise
          /\ enc.encodeQueueSize >= kEncodeQueueSize \/ encDequeueScheduled)

\* Calls that waited on the gate have been released by a dequeue event below
\* the mark and are about to submit their frames.
C35_Witness ==
  /\ encResumed > 1
  /\ encWaiting = 0
  /\ ~enc.blockingPromise
  /\ enc.encodeQueueSize < kEncodeQueueSize

\* ------------------------------------------------------------------ claims: the latest preview

\* The preview request that made the n-th preparePreview call.
Preparing(n) ==
  CHOOSE c \in 1..Len(calls) :
    /\ calls[c].op = "preview" /\ calls[c].pc # "threw"
    /\ Cardinality({d \in 1..c : calls[d].op = "preview"
                                   /\ calls[d].pc # "threw"}) = n

\* A frame of the target time of the n-th request has been drawn while that
\* request was the most recent one.
TargetDrawn(n) ==
  \E i \in 1..Len(previewDrawn) :
    /\ previewDrawn[i].prepares = n
    /\ LET p == calls[Preparing(n)].prepared
       IN previewDrawn[i].cts = p[Len(p)].cts

\* C36: whatever preview requests are made on an initialized processor and
\* however their awaits interleave with the decoder's outputs and flushes,
\* a request is followed by another request or by the drawing of its target
\* frame.
C36_LatestPreviewDrawn ==
  \A n \in 1..MaxCalls :
    (Prepares = n) ~> (Prepares > n \/ TargetDrawn(n))

\* The target of the latest of several requests has been drawn, an earlier
\* request's decode having been under way when it was made.
C36_Witness ==
  /\ Prepares > 1
  /\ TargetDrawn(Prepares)
  /\ calls[Preparing(Prepares)].returned = "promise"
  /\ calls[Preparing(Prepares - 1)].returned = "promise"
  /\ microQ = <<>>
  /\ previewQueue = <<>>

\* ------------------------------------------------------------------ claims: rejected exports

\* The range selection the export call c begins with, on the store as it
\* is.
SelectionOf(c) ==
  IF c.op = "export"
  THEN finalizeTimeRange(sm, c.arg[1], c.arg[2])
  ELSE finalizeSampleInIndex(sm, c.arg[1], c.arg[2])

\* An export call is made and rejected by processFile's state check, its
\* range being one the store accepts.
ExportRejectedForState ==
  /\ Len(calls') = Len(calls) + 1
  /\ LET c == calls'[Len(calls')]
     IN /\ c.op \in ExportOps
        /\ c.pc = "threw"
        /\ ~SelectionOf(c).threw

\* C37: an export call rejected because of the processor's state changes
\* neither the active range of the sample store nor its cursor.
C37_RejectedExportLeavesStore ==
  [][ExportRejectedForState =>
       (sm'.samples = sm.samples /\ sm'.currentIndex = sm.currentIndex)]_vars

\* ------------------------------------------------------------------ claims: frames held by the pipeline

\* The decoded frames handed to the pipeline and not closed.
OpenDecoded ==
  {id \in DOMAIN frames : id[1] = "decoded" /\ frames[id] = 0}

\* C38: throughout an export the pipeline holds at most kDecodeQueueSize + 1
\* decoded frames that are not closed, however long the range and however
\* slowly the encoder drains.
C38_OpenFramesBounded == Cardinality(OpenDecoded) <= kDecodeQueueSize + 1

\* ------------------------------------------------------------------ claims: previews after an export

\* The samples findSamplesAtPercentage returns on the whole file.
OverWholeFile(percentage) ==
  findSamplesAtPercentage(
    [sm EXCEPT !.samples = track, !.samplesIsNull = FALSE, !.finalized = FALSE],
    percentage).ret

\* C39: a preview requested after an export has finalized is prepared from
\* the whole file: it gets the samples the same percentage selects before
\* any export.
C39_PreviewOverWholeFile ==
  \A c \in 1..Len(calls) :
    (/\ calls[c].op = "preview"
     /\ calls[c].pc # "threw"
     /\ calls[c].stateAtCall = "finalized")
      => calls[c].prepared = OverWholeFile(calls[c].arg)

\* ------------------------------------------------------------------ claims: ingestion before initialization

\* The store holds the whole track and the demuxer has finalized it.
IngestionComplete ==
  /\ passed = Len(track)
  /\ stopSamples
  /\ sm.state = "finalized"
  /\ sm.readyResolved
  /\ ~sm.originalIsNull
  /\ sm.originalSamples = track

\* C40: while the processor is 'initialized', 'processing' or 'finalized'
\* the store holds every sample of the track, finalized by the demuxer, and
\* nothing is appended to it; and every preview or export request that got
\* its samples or its range was made in one of these states.
C40_InitializedAfterIngestion ==
  /\ procState \in {"initialized", "processing", "finalized"} => IngestionComplete
  /\ \A c \in 1..Len(calls) :
       (calls[c].op \in {"preview"} \cup ExportOps /\ calls[c].pc # "threw")
         => calls[c].stateAtCall \in {"initialized", "finalized"}

\* A file of several samples has been ingested and an export of it is under
\* way, a preview asked for during ingestion having been refused.
C40_Witness ==
  /\ procState = "processing"
  /\ Len(track) = MaxProcLen
  /\ IngestionComplete
  /\ \E c \in 1..Len(calls) :
       /\ calls[c].op = "preview"
       /\ calls[c].stateAtCall = "initializing"
       /\ calls[c].pc = "threw"

====
